---- MODULE Spec2Model ----
(***************************************************************************)
(* A model of the concept-map pipeline of aa-sikkkk/qa_model:              *)
(*   scripts/extract_concepts.py          (concept graph, save)            *)
(*   scripts/generate_questions_from_map.py (load, sanitize, templates,    *)
(*                                           validation, answer fallback)  *)
(* A Python str is modelled as a tuple of one-character strings, so that   *)
(* strip, split, lower, endswith and the regular expressions of the code   *)
(* are computed character by character.                                    *)
(***************************************************************************)
EXTENDS Integers, Sequences, FiniteSets, TLC

VARIABLES
    cleanTrace,     \* sanitizer harness: <<x, clean_concept(x), clean_concept(clean_concept(x))>>
    tautArgs,       \* tautology harness: the pair <<a, b>> of concept strings
    tautRes,        \* tautology harness: is_tautology(a, b) and is_tautology(b, a) once called
    tplArgs,        \* template harness: the triple <<source, verb, target>> handed to the selector
    tplPairs,       \* template harness: the pairs select_templates_and_answer returned
    tplBucket,      \* template harness: the bucket the selector classified the verb into
    tplChecked,     \* template harness: <<pair index, spellchecked question,
                    \* is_incomplete_question(question)>> triples
    nltk_available, \* module global: the lexical library (lemmatizer, verb senses) was imported
    hf_available,   \* module global: the sequence-generation pipeline was loaded
    pc,             \* position of the running call: "idle", "start", "hf", "build", "done",
                    \* "raised" when an exception left it;
                    \* of the concept map: "extracted", "saved", "loaded"
    concept_map,    \* generate_questions: the 'relationships' list of its argument
    num_questions,  \* generate_questions: <<>> for None, <<n>> for the limit n
    trace,          \* generate_questions: per relationship visited, the gate it stopped at
                    \* and the value of the local `pairs`
    cands,          \* generate_questions: all_questions, all_contexts, all_template_answers,
                    \* all_sources, all_verbs, all_targets as one list of records
    questions,      \* generate_questions: the list of records it returns
    hf_in,          \* generate_hf_answers: its arguments questions, contexts, batch_size
    hf_i,           \* generate_hf_answers: the loop index i
    answers,        \* generate_hf_answers: the list answers
    hf_log,         \* generate_hf_answers: per batch submitted, what the generator did
    concepts,       \* ConceptExtractor.concepts
    relationships,  \* ConceptExtractor.relationships
    file,           \* the concept map file: <<>> when absent, else <<its content>>
    loaded,         \* <<>>, or <<what load_concept_map returned>>
    validCalls,     \* is_valid_concept harness: <<text, first result, second result>>
    json_files,     \* main: the concept map files of the run, each as the variable file
    run_log,        \* main: per file taken up, what load_concept_map, generate_questions,
                    \* save_questions and save_questions_csv did
    extract_log,    \* extractor harness: per call of extract_from_text, the parsed document
                    \* and what the two passes did for each subject and object token
    lemma_log,      \* lemmatize_verb harness: <<>>, or <<verb, what lemmatize_verb returned>>
    graph           \* ConceptExtractor.graph: its nodes, and its edges as the list of the
                    \* items <<<<source, target>>, label>> of a dict

sanVars == <<cleanTrace>>
tautVars == <<tautArgs, tautRes>>
tplVars == <<tplArgs, tplPairs, tplBucket, tplChecked>>
envVars == <<nltk_available, hf_available>>
genVars == <<concept_map, num_questions, trace, cands, questions>>
hfVars == <<hf_in, hf_i, answers, hf_log>>
extVars == <<validCalls, json_files, run_log, extract_log, lemma_log, graph>>
mapVars == <<concepts, relationships, file, loaded, extVars>>
vars == <<cleanTrace, tautArgs, tautRes, tplArgs, tplPairs, tplBucket, tplChecked,
          nltk_available, hf_available, pc, concept_map, num_questions, trace, cands,
          questions, hf_in, hf_i, answers, hf_log, concepts, relationships, file, loaded,
          validCalls, json_files, run_log, extract_log, lemma_log, graph>>

\* the variables of a harness that is not running
SanIdle == cleanTrace = <<>>
TautIdle == tautArgs = <<>> /\ tautRes = <<>>
TplIdle == tplArgs = <<>> /\ tplPairs = <<>> /\ tplBucket = "" /\ tplChecked = {}
GenIdle == concept_map = <<>> /\ num_questions = <<>> /\ trace = <<>> /\ cands = <<>>
            /\ questions = <<>>
HfIdle == hf_in = <<>> /\ hf_i = 0 /\ answers = <<>> /\ hf_log = <<>>
ExtIdle == validCalls = <<>> /\ json_files = <<>> /\ run_log = <<>> /\ extract_log = <<>>
            /\ lemma_log = <<>> /\ graph = [nodes |-> {}, edges |-> <<>>]
MapIdle == concepts = {} /\ relationships = <<>> /\ file = <<>> /\ loaded = <<>> /\ ExtIdle
\* a pure-function harness: no call is running and the capabilities are absent
PipelineIdle == pc = "idle" /\ nltk_available = FALSE /\ hf_available = FALSE
                    /\ GenIdle /\ HfIdle
pipelineVars == <<envVars, pc, genVars, hfVars>>


(***************************************************************************)
(* Bounds of the model                                                     *)
(***************************************************************************)
MaxLen == 4            \* longest enumerated input string of the sanitizer harness
MaxTautLen == 3        \* longest enumerated argument of the tautology harness
MaxRels == 2           \* longest 'relationships' list handed to generate_questions
MaxLimit == 1          \* largest num_questions handed to generate_questions
MaxOddPos == 2         \* a batch's one deviating result is among its first MaxOddPos
MaxDirect == 3         \* most questions handed to generate_hf_answers called on its own
MaxBatch == 2          \* largest batch_size handed to generate_hf_answers called on its own
MaxTriples == 2
MaxCalls == 2        \* longest relationships list of an extractor state

(***************************************************************************)
(* Python str primitives                                                   *)
(***************************************************************************)
EmptyStr == <<>>

\* str.isspace() characters that occur in the model
WhiteSpace == {" ", "\t", "\n"}

LowerLetters == <<"a","b","c","d","e","f","g","h","i","j","k","l","m","n","o","p","q","r","s","t","u","v","w","x","y","z">>
UpperLetters == <<"A","B","C","D","E","F","G","H","I","J","K","L","M","N","O","P","Q","R","S","T","U","V","W","X","Y","Z">>
DigitChars == {"0", "1", "2", "3", "4", "5", "6", "7", "8", "9"}
LetterChars == {LowerLetters[i] : i \in 1..26} \cup {UpperLetters[i] : i \in 1..26}
AlnumChars == LetterChars \cup DigitChars

Range(s) == {s[i] : i \in 1..Len(s)}

\* str.lower() on one character
LowerChar(c) ==
    IF \E i \in 1..26 : UpperLetters[i] = c
    THEN LowerLetters[CHOOSE i \in 1..26 : UpperLetters[i] = c]
    ELSE c

\* str.lower()
Lower(s) == [i \in 1..Len(s) |-> LowerChar(s[i])]

\* str.strip(chars)
StripChars(s, C) ==
    LET n == Len(s)
        first == CHOOSE i \in 1..(n + 1) :
                    /\ \A j \in 1..(i - 1) : s[j] \in C
                    /\ (i = n + 1 \/ s[i] \notin C)
        last == CHOOSE i \in 0..n :
                    /\ \A j \in (i + 1)..n : s[j] \in C
                    /\ (i = 0 \/ s[i] \notin C)
    IN  IF first > last THEN EmptyStr ELSE SubSeq(s, first, last)

\* str.strip()
Strip(s) == StripChars(s, WhiteSpace)

Indices(s) == [i \in 1..Len(s) |-> i]

\* re.sub(r'\s+', ' ', s): every maximal run of whitespace becomes one space
CollapseWhitespace(s) ==
    LET kept == SelectSeq(Indices(s),
                    LAMBDA i : s[i] \notin WhiteSpace \/ i = 1 \/ s[i - 1] \notin WhiteSpace)
    IN  [k \in 1..Len(kept) |-> IF s[kept[k]] \in WhiteSpace THEN " " ELSE s[kept[k]]]

\* str.split(): the maximal runs of non-whitespace characters
Split(s) ==
    LET starts == SelectSeq(Indices(s),
                    LAMBDA i : s[i] \notin WhiteSpace /\ (i = 1 \/ s[i - 1] \in WhiteSpace))
        ends == SelectSeq(Indices(s),
                    LAMBDA i : s[i] \notin WhiteSpace /\ (i = Len(s) \/ s[i + 1] \in WhiteSpace))
    IN  [k \in 1..Len(starts) |-> SubSeq(s, starts[k], ends[k])]

\* str.replace(' ', '')
RemoveSpaces(s) == SelectSeq(s, LAMBDA c : c # " ")

\* str.endswith(suf)
EndsWith(s, suf) ==
    /\ Len(suf) <= Len(s)
    /\ SubSeq(s, Len(s) - Len(suf) + 1, Len(s)) = suf

\* str.startswith(pre)
StartsWith(s, pre) ==
    /\ Len(pre) <= Len(s)
    /\ SubSeq(s, 1, Len(pre)) = pre

\* all strings over alphabet A of length at most n
StringsUpTo(A, n) == UNION {[1..k -> A] : k \in 0..n}

(***************************************************************************)
(* generate_questions_from_map.py: clean_concept                           *)
(***************************************************************************)
MinConceptLen == 2
MaxConceptLen == 60

\* the characters of c.strip('.,;:!?-"\'()[]{}')
ConceptPunctuation == Range(<<".",",",";",":","!","?","-","\"","'","(",")","[","]","{","}">>)

\* re.fullmatch(r'[^a-zA-Z0-9]+', c)
OnlySymbols(c) == Len(c) >= 1 /\ \A i \in 1..Len(c) : c[i] \notin AlnumChars

\* re.fullmatch(r'[0-9 ]+', c)
OnlyDigitsAndSpaces(c) == Len(c) >= 1 /\ \A i \in 1..Len(c) : c[i] \in DigitChars \cup {" "}

\* re.fullmatch(r'[a-zA-Z]* ?[0-9]+[a-zA-Z]*', c)
LettersDigitsLetters(c) ==
    LET n == Len(c)
    IN  \E a \in 0..n : \E b \in {a, a + 1} : \E d \in (b + 1)..n :
            /\ \A i \in 1..a : c[i] \in LetterChars
            /\ (b = a + 1 => c[b] = " ")
            /\ \A i \in (b + 1)..d : c[i] \in DigitChars
            /\ \A i \in (d + 1)..n : c[i] \in LetterChars

clean_concept(concept) ==
    LET filtered(c) ==
            IF Len(c) < MinConceptLen \/ Len(c) > MaxConceptLen THEN EmptyStr
            ELSE IF OnlySymbols(c) THEN EmptyStr
            ELSE IF OnlyDigitsAndSpaces(c) THEN EmptyStr
            ELSE IF LettersDigitsLetters(c) THEN EmptyStr
            ELSE c
    IN  filtered(StripChars(Strip(CollapseWhitespace(concept)), ConceptPunctuation))

(***************************************************************************)
(* Sanitizer harness: clean_concept applied to an input and to its result  *)
(***************************************************************************)
SanitizerAlphabet == {"a", "B", "1", " ", "\n", ".", "#"}

\* a concept longer than the 60 characters clean_concept accepts
LongConcept == [i \in 1..(MaxConceptLen + 1) |-> "a"]

SanitizerInputs == StringsUpTo(SanitizerAlphabet, MaxLen) \cup {LongConcept}

InitSanitizer ==
    /\ cleanTrace \in {<<x>> : x \in SanitizerInputs}
    /\ TautIdle /\ TplIdle /\ PipelineIdle /\ MapIdle

CleanConcept ==
    /\ Len(cleanTrace) < 3
    /\ cleanTrace' = Append(cleanTrace, clean_concept(cleanTrace[Len(cleanTrace)]))
    /\ UNCHANGED <<tautVars, tplVars, pipelineVars, mapVars>>

NextSanitizer == CleanConcept

SpecSanitizer == InitSanitizer /\ [][NextSanitizer]_vars

\* C1: Sanitizer idempotence: clean_concept(clean_concept(x)) = clean_concept(x) for every
\* input x, punctuation separated from the text by a space and rejected inputs included.
C1_SanitizerIdempotent ==
    Len(cleanTrace) = 3 => cleanTrace[3] = cleanTrace[2]

(***************************************************************************)
(* generate_questions_from_map.py: is_tautology                            *)
(***************************************************************************)
\* a variant of is_tautology that normalises only its first argument
is_tautology_source_only(source, target) ==
    LET s == Lower(Strip(source))
        t == target
    IN  s = t \/ RemoveSpaces(s) = RemoveSpaces(t)

is_tautology(source, target) ==
    LET s == Lower(Strip(source))
        t == Lower(Strip(target))
    IN  s = t \/ RemoveSpaces(s) = RemoveSpaces(t)

(***************************************************************************)
(* Tautology harness: is_tautology called on a pair in both orders         *)
(***************************************************************************)
TautologyAlphabet == {"a", "A", "b", " "}

InitTautology ==
    /\ tautArgs \in StringsUpTo(TautologyAlphabet, MaxTautLen)
                        \X StringsUpTo(TautologyAlphabet, MaxTautLen)
    /\ tautRes = <<>>
    /\ MapIdle /\ SanIdle /\ TplIdle /\ PipelineIdle

\* is_tautology(a, b)
IsTautologyForward ==
    /\ tautArgs # <<>> /\ Len(tautRes) = 0
    /\ tautRes' = <<is_tautology(tautArgs[1], tautArgs[2])>>
    /\ UNCHANGED <<tautArgs, mapVars, sanVars, tplVars, pipelineVars>>

\* is_tautology(b, a)
IsTautologyBackward ==
    /\ tautArgs # <<>> /\ Len(tautRes) = 1
    /\ tautRes' = Append(tautRes, is_tautology(tautArgs[2], tautArgs[1]))
    /\ UNCHANGED <<tautArgs, mapVars, sanVars, tplVars, pipelineVars>>

NextTautology == IsTautologyForward \/ IsTautologyBackward

SpecTautology == InitTautology /\ [][NextTautology]_vars

\* C10: Tautology symmetry: is_tautology(a, b) = is_tautology(b, a) for all concept
\* strings a and b.
C10_TautologySymmetric ==
    Len(tautRes) = 2 => tautRes[1] = tautRes[2]

\* C10 witness: two strings of different length, equal only after trimming, lower-casing
\* and removing spaces, were found tautological in both orders.
C10_Witness ==
    /\ Len(tautRes) = 2
    /\ Len(tautArgs[1]) # Len(tautArgs[2])
    /\ Lower(tautArgs[1]) # Lower(tautArgs[2])
    /\ tautRes[1] /\ tautRes[2]

(***************************************************************************)
(* generate_questions_from_map.py: verb normalisation                      *)
(***************************************************************************)
COMMON_ENGLISH_VERBS ==
    {
    <<"b","e">>, <<"h","a","v","e">>, <<"d","o">>, <<"s","a","y">>, <<"g","e","t">>, <<"m","a","k","e">>,
    <<"g","o">>, <<"k","n","o","w">>, <<"t","a","k","e">>, <<"s","e","e">>, <<"c","o","m","e">>,
    <<"t","h","i","n","k">>, <<"l","o","o","k">>, <<"w","a","n","t">>, <<"g","i","v","e">>, <<"u","s","e">>,
    <<"f","i","n","d">>, <<"t","e","l","l">>, <<"a","s","k">>, <<"w","o","r","k">>, <<"s","e","e","m">>,
    <<"f","e","e","l">>, <<"t","r","y">>, <<"l","e","a","v","e">>, <<"c","a","l","l">>, <<"p","u","t">>,
    <<"k","e","e","p">>, <<"l","e","t">>, <<"b","e","g","i","n">>, <<"h","e","l","p">>, <<"t","a","l","k">>,
    <<"t","u","r","n">>, <<"s","t","a","r","t">>, <<"s","h","o","w">>, <<"h","e","a","r">>,
    <<"p","l","a","y">>, <<"r","u","n">>, <<"m","o","v","e">>, <<"l","i","v","e">>,
    <<"b","e","l","i","e","v","e">>, <<"b","r","i","n","g">>, <<"w","r","i","t","e">>,
    <<"p","r","o","v","i","d","e">>, <<"s","i","t">>, <<"s","t","a","n","d">>, <<"l","o","s","e">>,
    <<"p","a","y">>, <<"m","e","e","t">>, <<"i","n","c","l","u","d","e">>,
    <<"c","o","n","t","i","n","u","e">>, <<"s","e","t">>, <<"l","e","a","r","n">>,
    <<"c","h","a","n","g","e">>, <<"l","e","a","d">>, <<"u","n","d","e","r","s","t","a","n","d">>,
    <<"w","a","t","c","h">>, <<"f","o","l","l","o","w">>, <<"s","t","o","p">>, <<"c","r","e","a","t","e">>,
    <<"s","p","e","a","k">>, <<"r","e","a","d">>, <<"a","l","l","o","w">>, <<"a","d","d">>,
    <<"s","p","e","n","d">>, <<"g","r","o","w">>, <<"o","p","e","n">>, <<"w","a","l","k">>, <<"w","i","n">>,
    <<"o","f","f","e","r">>, <<"r","e","m","e","m","b","e","r">>, <<"l","o","v","e">>,
    <<"c","o","n","s","i","d","e","r">>, <<"a","p","p","e","a","r">>, <<"b","u","y">>, <<"w","a","i","t">>,
    <<"s","e","r","v","e">>, <<"d","i","e">>, <<"s","e","n","d">>, <<"e","x","p","e","c","t">>,
    <<"b","u","i","l","d">>, <<"s","t","a","y">>, <<"f","a","l","l">>, <<"c","u","t">>,
    <<"r","e","a","c","h">>, <<"k","i","l","l">>, <<"r","e","m","a","i","n">>,
    <<"s","u","g","g","e","s","t">>, <<"r","a","i","s","e">>, <<"p","a","s","s">>, <<"s","e","l","l">>,
    <<"r","e","q","u","i","r","e">>, <<"r","e","p","o","r","t">>, <<"d","e","c","i","d","e">>,
    <<"p","u","l","l">>, <<"r","e","t","u","r","n">>, <<"e","x","p","l","a","i","n">>, <<"h","o","p","e">>,
    <<"d","e","v","e","l","o","p">>, <<"c","a","r","r","y">>, <<"b","r","e","a","k">>,
    <<"r","e","c","e","i","v","e">>, <<"a","g","r","e","e">>, <<"s","u","p","p","o","r","t">>,
    <<"h","i","t">>, <<"p","r","o","d","u","c","e">>, <<"e","a","t">>, <<"c","o","v","e","r">>,
    <<"c","a","t","c","h">>, <<"d","r","a","w">>, <<"c","h","o","o","s","e">>, <<"c","a","u","s","e">>,
    <<"p","o","i","n","t">>, <<"l","i","s","t","e","n">>, <<"r","e","a","l","i","z","e">>,
    <<"p","l","a","c","e">>, <<"f","o","r","m">>, <<"j","o","i","n">>, <<"r","e","d","u","c","e">>,
    <<"e","s","t","a","b","l","i","s","h">>, <<"a","c","t">>, <<"a","p","p","l","y">>,
    <<"p","r","e","p","a","r","e">>, <<"t","e","a","c","h">>, <<"c","o","n","t","a","i","n">>,
    <<"c","o","n","t","r","o","l">>, <<"m","a","n","a","g","e">>, <<"d","e","s","c","r","i","b","e">>,
    <<"d","e","s","i","g","n">>, <<"t","e","s","t">>, <<"c","o","n","n","e","c","t">>,
    <<"s","t","o","r","e">>, <<"r","e","l","a","t","e">>, <<"i","n","d","i","c","a","t","e">>,
    <<"e","m","i","t">>, <<"c","r","o","s","s">>, <<"r","e","g","u","l","a","t","e">>,
    <<"g","e","n","e","r","a","t","e">>, <<"w","e","i","g","h">>, <<"m","i","n","i","m","i","z","e">>,
    <<"p","r","o","t","e","c","t">>, <<"m","e","m","o","r","i","z","e">>, <<"d","r","o","p">>,
    <<"r","e","s","e","m","b","l","e">>, <<"c","a","l","c","u","l","a","t","e">>, <<"p","u","m","p">>,
    <<"f","u","s","e">>, <<"d","i","s","s","o","c","i","a","t","e">>, <<"c","o","r","r","o","d","e">>,
    <<"d","e","p","l","e","t","e">>, <<"n","e","u","t","r","a","l","i","z","e">>, <<"a","b","s","o","r","b">>,
    <<"r","e","l","e","a","s","e">>, <<"s","u","p","p","l","y">>, <<"s","u","r","r","o","u","n","d">>,
    <<"d","e","s","t","r","o","y">>, <<"c","o","m","b","i","n","e">>, <<"c","o","n","v","e","r","t">>,
    <<"d","i","v","i","d","e">>, <<"o","c","c","u","r">>, <<"r","e","s","u","l","t">>,
    <<"t","r","i","g","g","e","r">>, <<"a","f","f","e","c","t">>, <<"i","n","f","l","u","e","n","c","e">>,
    <<"c","o","n","s","i","s","t">>, <<"c","o","m","p","r","i","s","e">> }

\* the suffixes of the fallback lemmatizer, in the order the code tries them
LemmaSuffixes ==
    <<
    <<"s","s","e","s">>, <<"i","e","s">>, <<"e","s">>, <<"s">>, <<"e","d">>, <<"i","n","g">> >>

\* WordNetLemmatizer().lemmatize(verb, 'v') of the lexical library, for the verbs the
\* model's concept maps contain (WordNet's verb exception list and detachment rules);
\* a word WordNet does not know comes back unchanged
WordNetLemmas == <<
    <<<<"p","r","o","d","u","c","e","s">>, <<"p","r","o","d","u","c","e">>>>,
    <<<<"i","s">>, <<"b","e">>>>,
    <<<<"g","i","v","e","n">>, <<"g","i","v","e">>>>,
    <<<<"p","u","m","p","s">>, <<"p","u","m","p">>>>,
    <<<<"a","r","e">>, <<"b","e">>>>,
    <<<<"p","r","o","v","i","d","e","s">>, <<"p","r","o","v","i","d","e">>>> >>

WordNetLemmatize(verb) ==
    IF \E i \in 1..Len(WordNetLemmas) : WordNetLemmas[i][1] = verb
    THEN WordNetLemmas[CHOOSE i \in 1..Len(WordNetLemmas) : WordNetLemmas[i][1] = verb][2]
    ELSE verb

\* the words for which wordnet.synsets(verb, pos=wordnet.VERB) is not empty, among the
\* lemmas the model's concept maps produce
WordNetVerbs ==
    {<<"p","r","o","d","u","c","e">>, <<"b","e">>, <<"g","i","v","e">>, <<"p","u","m","p">>, <<"w","a","t","e","r">>, <<"u","s","e">>, <<"s","u","p","p","l","y">>, <<"f","o","r","m">>,
     <<"m","o","v","e">>, <<"p","r","o","v","i","d","e">>}

\* the fallback cutting the last suffix of the list the verb ends with
StripLastSuffix(verb) ==
    IF \E k \in 1..Len(LemmaSuffixes) : EndsWith(verb, LemmaSuffixes[k])
    THEN LET k == CHOOSE k \in 1..Len(LemmaSuffixes) :
                    /\ EndsWith(verb, LemmaSuffixes[k])
                    /\ \A j \in (k + 1)..Len(LemmaSuffixes) : ~EndsWith(verb, LemmaSuffixes[j])
         IN  SubSeq(verb, 1, Len(verb) - Len(LemmaSuffixes[k]))
    ELSE verb

\* the fallback of lemmatize_verb: the first suffix of the list the verb ends with is cut
StripFirstSuffix(verb) ==
    IF \E k \in 1..Len(LemmaSuffixes) : EndsWith(verb, LemmaSuffixes[k])
    THEN LET k == CHOOSE k \in 1..Len(LemmaSuffixes) :
                    /\ EndsWith(verb, LemmaSuffixes[k])
                    /\ \A j \in 1..(k - 1) : ~EndsWith(verb, LemmaSuffixes[j])
         IN  SubSeq(verb, 1, Len(verb) - Len(LemmaSuffixes[k]))
    ELSE verb

lemmatize_verb(verb, nltk) ==
    IF nltk THEN WordNetLemmatize(verb) ELSE StripFirstSuffix(verb)

\* is_valid_verb accepting every verb that is not empty
is_valid_verb_nonempty(verb, nltk) == verb # EmptyStr

\* wordnet.synsets looks the word up by its base forms
is_valid_verb(verb, nltk) ==
    IF nltk THEN WordNetLemmatize(verb) \in WordNetVerbs ELSE verb \in COMMON_ENGLISH_VERBS

(***************************************************************************)
(* generate_questions_from_map.py: spellcheck (fixed correction table)     *)
(***************************************************************************)
corrections ==
    <<
    <<<<"c","o","p","y","s">>, <<"c","o","p","i","e","s">>>>,
    <<<<"s","u","p","p","l","y","s">>, <<"s","u","p","p","l","i","e","s">>>>,
    <<<<"f","o","c","u","s","s">>, <<"f","o","c","u","s","e","s">>>>,
    <<<<"c","r","o","s","s","e","d","s">>, <<"c","r","o","s","s","e","s">>>>,
    <<<<"e","m","i","t","s","s">>, <<"e","m","i","t","s">>>>,
    <<<<"i","d","e","n","t","i","f","y","s">>, <<"i","d","e","n","t","i","f","i","e","s">>>> >>

spellcheck_word(word) ==
    IF \E i \in 1..Len(corrections) : corrections[i][1] = word
    THEN corrections[CHOOSE i \in 1..Len(corrections) : corrections[i][1] = word][2]
    ELSE word

\* the alternatives of the group (Who or what|What|How|Why)
QuestionOpeners == <<<<"W","h","o"," ","o","r"," ","w","h","a","t">>, <<"W","h","a","t">>, <<"H","o","w">>, <<"W","h","y">>>>

\* the characters \w matches, which decide where \b holds
WordChars == AlnumChars \cup {"_"}

\* end of the maximal run of letters that starts at j (j - 1 when s[j] is no letter)
LetterRunEnd(s, j) ==
    CHOOSE e \in (j - 1)..Len(s) :
        /\ \A i \in j..e : s[i] \in LetterChars
        /\ (e = Len(s) \/ s[e + 1] \notin LetterChars)

\* The match of r'\b(Who or what|What|How|Why) ([a-zA-Z]+)<suffix>\b' that starts at i:
\* <<>> when there is none, else <<first index of the word, last index of the word>>.
\* The word is the whole run of letters, which must end with the suffix, be longer
\* than it and be followed by a word boundary.
OpenerMatch(s, i, suffix) ==
    IF ~(i = 1 \/ s[i - 1] \notin WordChars) THEN <<>>
    ELSE IF ~(\E o \in 1..Len(QuestionOpeners) :
                StartsWith(SubSeq(s, i, Len(s)), QuestionOpeners[o] \o <<" ">>)) THEN <<>>
    ELSE LET word(j, e) ==
                IF /\ e - j + 1 > Len(suffix)
                   /\ EndsWith(SubSeq(s, j, e), suffix)
                   /\ (e = Len(s) \/ s[e + 1] \notin WordChars)
                THEN <<j, e>>
                ELSE <<>>
             wordFrom(j) == word(j, LetterRunEnd(s, j))
             o == CHOOSE o \in 1..Len(QuestionOpeners) :
                    StartsWith(SubSeq(s, i, Len(s)), QuestionOpeners[o] \o <<" ">>)
         IN  wordFrom(i + Len(QuestionOpeners[o]) + 1)

\* re.sub of one pattern of spellcheck_question from index i on: in every match the
\* word (group 2 plus the suffix) is replaced by spellcheck_word(group 2) plus the suffix
RECURSIVE SpellcheckFrom(_, _, _)
SpellcheckFrom(s, i, suffix) ==
    LET replaced(m) ==
            SubSeq(s, i, m[1] - 1)
                \o spellcheck_word(SubSeq(s, m[1], m[2] - Len(suffix))) \o suffix
                \o SpellcheckFrom(s, m[2] + 1, suffix)
        firstOf(starts) ==
            IF starts = {} THEN SubSeq(s, i, Len(s))
            ELSE replaced(OpenerMatch(s, CHOOSE k \in starts : \A l \in starts : k <= l,
                                      suffix))
    IN  firstOf({k \in i..Len(s) : OpenerMatch(s, k, suffix) # <<>>})

spellcheck_question(q) ==
    SpellcheckFrom(SpellcheckFrom(SpellcheckFrom(q, 1, <<"s">>), 1, <<"e","d">>), 1, EmptyStr)

(***************************************************************************)
(* generate_questions_from_map.py: question validation                     *)
(***************************************************************************)
GENERIC_WORDS ==
    {
    <<"a","n","y","t","h","i","n","g">>, <<"a","s","p","e","c","t">>,
    <<"e","v","e","r","y","t","h","i","n","g">>, <<"i","t">>, <<"i","t","e","m">>,
    <<"i","t","s","e","l","f">>, <<"o","b","j","e","c","t">>, <<"s","o","m","e","t","h","i","n","g">>,
    <<"t","h","a","t">>, <<"t","h","e","m">>, <<"t","h","e","y">>, <<"t","h","i","n","g">>,
    <<"t","h","i","n","g","s">>, <<"t","h","i","s">>, <<"t","h","o","s","e">> }

\* is_generic_concept comparing the concept as it is written
is_generic_concept_cased(concept) == concept \in GENERIC_WORDS

is_generic_concept(concept) == Lower(concept) \in GENERIC_WORDS

prepositions ==
    {
    <<"o","f">>, <<"t","o">>, <<"f","o","r">>, <<"w","i","t","h">>, <<"o","n">>, <<"a","t">>, <<"b","y">>,
    <<"f","r","o","m">>, <<"u","p">>, <<"a","b","o","u","t">>, <<"i","n","t","o">>, <<"o","v","e","r">>,
    <<"a","f","t","e","r">>, <<"b","e","n","e","a","t","h">>, <<"u","n","d","e","r">>, <<"a","b","o","v","e">> }

\* the list of malformed inflected words of is_incomplete_question
MalformedWords ==
    {
    <<"o","f","s">>, <<"i","n","s">>, <<"b","e","t","w","e","e","n","s">>,
    <<"a","c","c","e","p","t","s","s">>, <<"i","n","t","r","o","s">>, <<"r","e","t","u","r","n","s","s">>,
    <<"a","s","k","s","s">>, <<"f","o","r","s">>, <<"c","o","n","c","e","r","n","i","n","g","s">>,
    <<"p","a","s","s","e","d","s">>, <<"i","v","s">>, <<"a","s","s">>, <<"o","n","s">>,
    <<"u","s","e","s","s">>, <<"m","a","k","e","s","s">>, <<"w","r","i","t","e","s","s">>,
    <<"r","e","a","d","s","s">>, <<"o","p","e","n","s","s">>, <<"c","l","o","s","e","s","s">>,
    <<"d","e","l","e","t","e","s","s">>, <<"p","r","e","p","a","r","e","s">>,
    <<"d","e","v","e","l","o","p","i","n","g","s">>, <<"e","n","c","o","u","r","a","g","e","d","s">>,
    <<"p","r","o","v","i","d","e","s","s">>, <<"r","e","p","r","e","s","e","n","t","s","s">>,
    <<"i","d","e","n","t","i","f","i","e","s","s">>, <<"s","e","l","e","c","t","s","s">>,
    <<"d","e","c","l","a","r","e","s">>, <<"e","x","e","c","u","t","e","s">>,
    <<"s","u","p","p","l","i","e","s">>, <<"r","e","t","r","i","e","v","e","s","s">>, <<"s","a","v","e","s">>,
    <<"m","o","d","i","f","i","e","s">>, <<"e","d","i","t","s">>, <<"r","e","t","u","r","n","s">>,
    <<"a","s","k","s">>, <<"m","a","i","n","t","a","i","n","s","s">>, <<"l","e","a","d","s">>,
    <<"r","e","g","u","l","a","t","e","s">>, <<"a","r","r","a","n","g","e","s">>,
    <<"c","o","n","t","r","o","l","s">>, <<"e","n","a","b","l","e","s">>, <<"d","i","s","p","l","a","y","s">>,
    <<"c","a","l","c","u","l","a","t","e","s">>, <<"t","r","a","n","s","f","e","r","s">>,
    <<"s","e","n","d","s">>, <<"r","e","c","e","i","v","e","s">>, <<"a","s","s","i","g","n","s">>,
    <<"c","h","o","o","s","e","s">>, <<"l","i","s","t","s">>, <<"s","o","r","t","s">>,
    <<"f","i","l","t","e","r","s">>, <<"m","a","t","c","h","e","s">>, <<"m","a","r","k","s">>,
    <<"n","a","m","e","s">>, <<"o","r","g","a","n","i","z","e","s">>, <<"p","l","a","n","s">>,
    <<"p","r","i","n","t","s">>, <<"p","r","o","c","e","s","s","e","s">>, <<"p","r","o","v","i","d","e","s">>,
    <<"r","e","m","o","v","e","s">>, <<"r","e","p","l","a","c","e","s">>, <<"r","e","s","e","t","s">>,
    <<"r","e","s","t","o","r","e","s">>, <<"r","e","t","r","i","e","v","e","s">>, <<"r","u","n","s">>,
    <<"s","e","a","r","c","h","e","s">>, <<"s","h","a","r","e","s">>, <<"s","h","o","w","s">>,
    <<"s","t","a","r","t","s">>, <<"s","t","o","p","s">>, <<"s","t","o","r","e","s">>,
    <<"s","u","p","p","o","r","t","s">>, <<"s","w","i","t","c","h","e","s">>, <<"t","e","s","t","s">>,
    <<"t","r","a","i","n","s">>, <<"u","p","d","a","t","e","s">>, <<"u","p","l","o","a","d","s">>,
    <<"u","s","e","s">>, <<"v","a","l","i","d","a","t","e","s">>, <<"v","e","r","i","f","i","e","s">>,
    <<"v","i","e","w","s">>, <<"w","r","i","t","e","s">> }

MinQuestionWords == 5

\* is_incomplete_question without the count of words
is_incomplete_question_no_count(q) ==
    LET words == Split(Lower(q))
    IN  \/ words[Len(words)] \in prepositions
        \/ \E i \in 1..Len(words) : words[i] \in MalformedWords

is_incomplete_question(q) ==
    LET words == Split(Lower(q))
    IN  \/ Len(words) < MinQuestionWords
        \/ words[Len(words)] \in prepositions
        \/ \E i \in 1..Len(words) : words[i] \in MalformedWords

blacklisted_verbs ==
    {
    <<"o","f">>, <<"f","r","o","m">>, <<"i","n","t","o">>, <<"b","y">>, <<"w","i","t","h">>, <<"o","n">>,
    <<"i","n">>, <<"a","t">>, <<"t","o">>, <<"f","o","r">>, <<"a","s">>, <<"c">>, <<"2","s">>, <<"1","s">>,
    <<"v","s">>, <<"a","n","d">>, <<"o","r">>, <<"b","u","t">>, <<"i","f">>, <<"t","h","e","n">>,
    <<"e","l","s","e">>, <<"t","h","a","n">>, <<"s","o">>, <<"b","e","c","a","u","s","e">>,
    <<"a","l","t","h","o","u","g","h">>, <<"t","h","o","u","g","h">>, <<"w","h","i","l","e">>,
    <<"w","h","e","r","e","a","s">>, <<"g","i","v","e","n">>, <<"s","t","a","t","e">>, <<"l","a","w">>,
    <<"a","b","o","u","t">>, <<"b","e","t","w","e","e","n">>, <<"a","m","o","n","g">>,
    <<"d","u","r","i","n","g">>, <<"a","f","t","e","r">>, <<"b","e","f","o","r","e">>,
    <<"a","b","o","v","e">>, <<"b","e","l","o","w">>, <<"u","n","d","e","r">>, <<"o","v","e","r">>,
    <<"t","h","r","o","u","g","h">>, <<"a","c","r","o","s","s">>, <<"p","e","r">>, <<"i","s">>,
    <<"a","r","e">>, <<"w","a","s">>, <<"w","e","r","e">>, <<"b","e">>, <<"b","e","e","n">>,
    <<"b","e","i","n","g">>, <<"h","a","s">>, <<"h","a","v","e">>, <<"h","a","d">>, <<"d","o">>,
    <<"d","o","e","s">>, <<"d","i","d">>, <<"d","o","n","e">>, <<"d","o","i","n","g">>, <<"w","i","l","l">>,
    <<"w","o","u","l","d">>, <<"c","a","n">>, <<"c","o","u","l","d">>, <<"s","h","a","l","l">>,
    <<"s","h","o","u","l","d">>, <<"m","a","y">>, <<"m","i","g","h","t">>, <<"m","u","s","t">>,
    <<"n","o","t">>, <<"n","o">>, <<"y","e","s">>, <<"a">>, <<"a","n">>, <<"t","h","e">>, <<"t","h","i","s">>,
    <<"t","h","a","t">>, <<"t","h","e","s","e">>, <<"t","h","o","s","e">>, <<"i","t">>, <<"t","h","e","y">>,
    <<"w","e">>, <<"y","o","u">>, <<"i">>, <<"h","e">>, <<"s","h","e">>, <<"w","h","o">>, <<"w","h","o","m">>,
    <<"w","h","o","s","e">>, <<"w","h","i","c","h">>, <<"w","h","a","t">>, <<"w","h","e","r","e">>,
    <<"w","h","e","n">>, <<"w","h","y">>, <<"h","o","w">> }

\* a blacklist without the forms of "be"
is_blacklisted_verb_keeping_be(verb) ==
    verb \in blacklisted_verbs \ {<<"i","s">>, <<"a","r","e">>, <<"w","a","s">>, <<"w","e","r","e">>, <<"b","e">>}

is_blacklisted_verb(verb) == verb \in blacklisted_verbs

(***************************************************************************)
(* generate_questions_from_map.py: select_templates_and_answer             *)
(***************************************************************************)
causal_verbs ==
    {
    <<"c","a","u","s","e","s">>, <<"a","f","f","e","c","t","s">>, <<"l","e","a","d","s"," ","t","o">>,
    <<"r","e","s","u","l","t","s"," ","i","n">>, <<"i","n","f","l","u","e","n","c","e","s">>,
    <<"t","r","i","g","g","e","r","s">> }
comp_verbs ==
    {
    <<"c","o","n","t","a","i","n","s">>, <<"i","n","c","l","u","d","e","s">>, <<"h","a","s">>,
    <<"c","o","n","s","i","s","t","s"," ","o","f">>, <<"c","o","m","p","r","i","s","e","s">> }
def_verbs ==
    {
    <<"i","s">>, <<"a","r","e">>, <<"w","a","s">>, <<"w","e","r","e">>, <<"b","e">> }
\* the action verbs in their base form
action_verbs_base == {<<"u","s","e">>, <<"c","o","n","n","e","c","t">>, <<"p","r","o","v","i","d","e">>, <<"f","o","l","l","o","w">>, <<"r","e","q","u","i","r","e">>}

action_verbs ==
    {
    <<"u","s","e","s">>, <<"c","o","n","n","e","c","t","s">>, <<"p","r","o","v","i","d","e","s">>,
    <<"f","o","l","l","o","w","s">>, <<"r","e","q","u","i","r","e","s">> }

\* the bucket the if/elif chain of select_templates_and_answer takes
VerbBucket(verb) ==
    LET v == Lower(verb)
    IN  IF v \in causal_verbs THEN "causal"
        ELSE IF v \in comp_verbs THEN "compositional"
        ELSE IF v \in def_verbs THEN "definitional"
        ELSE IF v \in action_verbs THEN "action"
        ELSE "general"

Sp == <<" ">>

general_templates(source, verb, target) == <<
    <<<<"W","h","a","t"," ","i","s"," ","t","h","e"," ","r","e","l","a","t","i","o","n","s","h","i","p"," ","b","e","t","w","e","e","n"," ">> \o source \o <<" ","a","n","d"," ">> \o target \o <<"?">>,
      source \o <<" ","a","n","d"," ">> \o target \o <<" ","a","r","e"," ","r","e","l","a","t","e","d"," ","b","y"," ">> \o verb \o <<".">>>>,
    <<<<"E","x","p","l","a","i","n"," ","t","h","e"," ","c","o","n","n","e","c","t","i","o","n"," ","b","e","t","w","e","e","n"," ">> \o source \o <<" ","a","n","d"," ">> \o target \o <<".">>,
      source \o Sp \o verb \o Sp \o target \o <<".">>>>,
    <<<<"H","o","w"," ","a","r","e"," ">> \o source \o <<" ","a","n","d"," ">> \o target \o <<" ","r","e","l","a","t","e","d","?">>,
      source \o <<" ","a","n","d"," ">> \o target \o <<" ","a","r","e"," ","r","e","l","a","t","e","d"," ","b","y"," ">> \o verb \o <<".">>>> >>

causal_templates(source, verb, target) == <<
    <<<<"W","h","y"," ","d","o","e","s"," ">> \o source \o Sp \o verb \o Sp \o target \o <<"?">>,
      <<"B","e","c","a","u","s","e"," ">> \o source \o Sp \o verb \o Sp \o target \o <<".">>>>,
    <<<<"H","o","w"," ","d","o","e","s"," ">> \o source \o Sp \o verb \o Sp \o target \o <<"?">>,
      source \o Sp \o verb \o Sp \o target \o <<".">>>>,
    <<<<"W","h","a","t"," ","e","f","f","e","c","t"," ","d","o","e","s"," ">> \o source \o <<" ","h","a","v","e"," ","o","n"," ">> \o target \o <<"?">>,
      source \o Sp \o verb \o Sp \o target \o <<".">>>> >>

comp_templates(source, verb, target) == <<
    <<<<"W","h","a","t"," ","d","o","e","s"," ">> \o source \o Sp \o verb \o <<"?">>, target>>,
    <<<<"L","i","s","t"," ","t","h","e"," ","c","o","m","p","o","n","e","n","t","s"," ","o","f"," ">> \o source \o <<".">>,
      source \o Sp \o verb \o Sp \o target \o <<".">>>>,
    <<<<"D","e","s","c","r","i","b","e"," ","w","h","a","t"," ">> \o source \o Sp \o verb \o <<".">>,
      source \o Sp \o verb \o Sp \o target \o <<".">>>> >>

\* a variant of def_templates whose answers name the target first
def_templates_reversed(source, verb, target) == <<
    <<<<"W","h","a","t"," ","i","s"," ">> \o source \o <<"?">>, target \o <<" ","i","s"," ">> \o source \o <<".">>>>,
    <<<<"D","e","f","i","n","e"," ">> \o source \o <<".">>, target \o <<" ","i","s"," ">> \o source \o <<".">>>>,
    <<<<"W","h","a","t"," ","a","r","e"," ">> \o source \o <<" ","a","n","d"," ","h","o","w"," ","a","r","e"," ","t","h","e","y"," ","r","e","l","a","t","e","d"," ","t","o"," ">> \o target \o <<"?">>,
      target \o <<" ","i","s"," ","r","e","l","a","t","e","d"," ","t","o"," ">> \o source \o <<" ","b","y"," ">> \o verb \o <<".">>>> >>

def_templates(source, verb, target) == <<
    <<<<"W","h","a","t"," ","i","s"," ">> \o source \o <<"?">>, source \o <<" ","i","s"," ">> \o target \o <<".">>>>,
    <<<<"D","e","f","i","n","e"," ">> \o source \o <<".">>, source \o <<" ","i","s"," ">> \o target \o <<".">>>>,
    <<<<"W","h","a","t"," ","a","r","e"," ">> \o source \o <<" ","a","n","d"," ","h","o","w"," ","a","r","e"," ","t","h","e","y"," ","r","e","l","a","t","e","d"," ","t","o"," ">> \o target \o <<"?">>,
      source \o <<" ","i","s"," ","r","e","l","a","t","e","d"," ","t","o"," ">> \o target \o <<" ","b","y"," ">> \o verb \o <<".">>>> >>

action_templates(source, verb, target) == <<
    <<<<"H","o","w"," ","d","o","e","s"," ">> \o source \o Sp \o verb \o Sp \o target \o <<"?">>,
      source \o Sp \o verb \o Sp \o target \o <<".">>>>,
    <<<<"D","e","s","c","r","i","b","e"," ","h","o","w"," ">> \o source \o Sp \o verb \o Sp \o target \o <<".">>,
      source \o Sp \o verb \o Sp \o target \o <<".">>>>,
    <<<<"W","h","a","t"," ","i","s"," ","t","h","e"," ","r","o","l","e"," ","o","f"," ">> \o source \o <<" ","i","n"," ","r","e","l","a","t","i","o","n"," ","t","o"," ">> \o target \o <<"?">>,
      source \o Sp \o verb \o Sp \o target \o <<".">>>> >>

\* the appended variants with the "Who or what" question first
dependency_variants_reordered(source, verb, target) == <<
    <<<<"W","h","o"," ","o","r"," ","w","h","a","t"," ">> \o verb \o <<"s"," ">> \o target \o <<"?">>, source>>,
    <<<<"W","h","a","t"," ">> \o verb \o <<"s"," ">> \o target \o <<"?">>, source>>,
    <<<<"W","h","a","t"," ","d","o","e","s"," ">> \o source \o Sp \o verb \o <<"?">>, target>> >>

\* the three variants appended whatever the bucket
dependency_variants(source, verb, target) == <<
    <<<<"W","h","a","t"," ">> \o verb \o <<"s"," ">> \o target \o <<"?">>, source>>,
    <<<<"W","h","a","t"," ","d","o","e","s"," ">> \o source \o Sp \o verb \o <<"?">>, target>>,
    <<<<"W","h","o"," ","o","r"," ","w","h","a","t"," ">> \o verb \o <<"s"," ">> \o target \o <<"?">>, source>> >>

select_templates_and_answer(source, verb, target) ==
    LET pairs(bucket) ==
            IF bucket = "causal" THEN causal_templates(source, verb, target)
            ELSE IF bucket = "compositional" THEN comp_templates(source, verb, target)
            ELSE IF bucket = "definitional" THEN def_templates(source, verb, target)
            ELSE IF bucket = "action" THEN action_templates(source, verb, target)
            ELSE general_templates(source, verb, target)
    IN  pairs(VerbBucket(verb)) \o dependency_variants(source, verb, target)

(***************************************************************************)
(* Template harness: select_templates_and_answer on a triple, then         *)
(* spellcheck_question and is_incomplete_question on its questions         *)
(***************************************************************************)
Triple(source, verb, target) == <<source, verb, target>>

TemplateTriples == {
    Triple(<<"p","h","o","t","o","s","y","n","t","h","e","s","i","s">>, <<"p","r","o","d","u","c","e","s">>, <<"g","l","u","c","o","s","e">>),
    Triple(<<"p","h","o","t","o","s","y","n","t","h","e","s","i","s">>, <<"p","r","o","d","u","c","e">>, <<"g","l","u","c","o","s","e">>),
    Triple(<<"m","i","t","o","c","h","o","n","d","r","i","a">>, <<"i","s">>, <<"t","h","e"," ","p","o","w","e","r","h","o","u","s","e"," ","o","f"," ","t","h","e"," ","c","e","l","l">>),
    Triple(<<"o","f"," ","t","h","e"," ","c","e","l","l">>, <<"i","s">>, <<"a","n"," ","o","r","g","a","n","e","l","l","e">>),
    Triple(<<"s","m","o","k","e">>, <<"c","a","u","s","e","s">>, <<"c","o","u","g","h">>),
    Triple(<<"a"," ","c","e","l","l">>, <<"C","o","n","t","a","i","n","s">>, <<"a"," ","n","u","c","l","e","u","s">>),
    Triple(<<"p","l","a","n","t","s">>, <<"u","s","e","s">>, <<"s","u","n","l","i","g","h","t">>),
    Triple(<<"t","h","e"," ","h","e","a","r","t">>, <<"p","u","m","p">>, <<"r","e","d"," ","b","l","o","o","d"," ","c","e","l","l","s">>) }

InitTemplates ==
    /\ tplArgs \in TemplateTriples
    /\ tplPairs = <<>> /\ tplBucket = "" /\ tplChecked = {}
    /\ MapIdle /\ SanIdle /\ TautIdle /\ PipelineIdle

\* pairs = select_templates_and_answer(source, verb, target)
SelectTemplates ==
    /\ tplArgs # <<>> /\ tplPairs = <<>>
    /\ tplPairs' = select_templates_and_answer(tplArgs[1], tplArgs[2], tplArgs[3])
    /\ tplBucket' = VerbBucket(tplArgs[2])
    /\ UNCHANGED <<tplArgs, tplChecked, mapVars, sanVars, tautVars, pipelineVars>>

\* q = spellcheck_question(q); is_incomplete_question(q), for one pair of the list
CheckQuestion(i) ==
    /\ i \in 1..Len(tplPairs)
    /\ \A c \in tplChecked : c[1] # i
    /\ \E q \in {spellcheck_question(tplPairs[i][1])} :
            tplChecked' = tplChecked \cup {<<i, q, is_incomplete_question(q)>>}
    /\ UNCHANGED <<tplArgs, tplPairs, tplBucket, mapVars, sanVars, tautVars, pipelineVars>>

NextTemplates == SelectTemplates \/ \E i \in 1..Len(tplPairs) : CheckQuestion(i)

SpecTemplates == InitTemplates /\ [][NextTemplates]_vars

\* C6: the synthesized question "What is of the cell?" is rejected by the
\* incompleteness check: is_incomplete_question returns true for it.
C6_FragmentRejected ==
    \A c \in tplChecked : c[2] = <<"W","h","a","t"," ","i","s"," ","o","f"," ","t","h","e"," ","c","e","l","l","?">> => c[3]

PyNone == <<"None">>

\* a Python int where the code expects a str, with its digits
PyInt(digits) == <<"int", digits>>
IsPyInt(v) == Len(v) = 2 /\ v[1] = "int"

\* a list of n empty strings
EmptyAnswers(n) == [k \in 1..n |-> EmptyStr]

Nones(n) == [k \in 1..n |-> PyNone]

Min(a, b) == IF a <= b THEN a ELSE b

\* the default of the parameter batch_size
DefaultBatchSize == 16

\* dict.get(key, default), a dict being a set of <<key, value>> pairs
DictGet(d, key, default) ==
    IF \E kv \in d : kv[1] = key THEN (CHOOSE kv \in d : kv[1] = key)[2] ELSE default

\* What the generator can return for one prompt, by kind. Its text repeats the question
\* of the prompt, so that an answer can be told from the answer to another prompt.
ResultKinds == {"text", "prefixed", "textkey", "empty", "nokey", "none"}

ResultOf(kind, q) ==
    CASE kind = "text"     -> {<<"generated_text", <<" ">> \o q \o <<"\n">>>>}
      [] kind = "prefixed" -> {<<"generated_text", <<"A","n","s","w","e","r",":"," ">> \o q>>}
      [] kind = "textkey"  -> {<<"text", q>>}
      [] kind = "empty"    -> {<<"generated_text", <<" "," ">>>>}
      [] kind = "nokey"    -> {}
      [] kind = "none"     -> {<<"generated_text", PyNone>>}

\* res.get('generated_text', res.get('text', ''))
GeneratedText(res) == DictGet(res, "generated_text", DictGet(res, "text", EmptyStr))

\* .strip() on None raises AttributeError
ReadRaises(res) == GeneratedText(res) = PyNone

\* the answer the loop body appends for one result
ReadAnswer(res) ==
    LET answer == Strip(GeneratedText(res))
    IN  IF StartsWith(Lower(answer), <<"a","n","s","w","e","r",":">>)
        THEN Strip(SubSeq(answer, 8, Len(answer)))
        ELSE answer

\* `answers` after one iteration of the batch loop over n prompts: the generator call
\* raised, or it returned `results`, which are read in order until one read raises
AnswersAfterBatch(ans, n, raised, results) ==
    IF raised THEN ans \o Nones(n)
    ELSE LET bad == {j \in 1..Len(results) : ReadRaises(results[j])}
             stop == IF bad = {} THEN Len(results) + 1
                     ELSE CHOOSE j \in bad : \A k \in bad : j <= k
         IN  ans \o [j \in 1..(stop - 1) |-> ReadAnswer(results[j])]
                 \o (IF bad = {} THEN <<>> ELSE Nones(n))

\* a variant of NextBatchStart that gives up the remaining batches after a failure
NextBatchStartAbortsOnFailure(i, batch_size, total, failed) ==
    IF failed THEN total ELSE i + batch_size

\* range(0, len(prompts), batch_size): the start of the batch after the one at i
NextBatchStart(i, batch_size, total, failed) == i + batch_size

\* The results the generator may return for a batch of n prompts, as kinds per
\* prompt: all of one kind, but for at most one among the first MaxOddPos.
BatchKinds(n) ==
    {[j \in 1..n |-> IF j = p THEN k ELSE b] :
        b \in {"text", "empty"}, p \in 0..Min(n, MaxOddPos), k \in ResultKinds}

\* what a call of the generator on n prompts hands back: nothing when it raised
ReturnsOf(raised, n) == IF raised THEN {<<>>} ELSE BatchKinds(n)

\* len(prompts): zip stops at the shorter of questions and contexts
NumPrompts == Min(Len(hf_in.questions), Len(hf_in.contexts))

\* where the call of generate_hf_answers returns to
AfterHf == IF hf_in.caller = "generate_questions" THEN "build" ELSE "done"

\* if not hf_available or hf_generator is None: return [None] * len(questions)
HfUnavailable ==
    /\ pc = "hf" /\ ~hf_available
    /\ answers' = Nones(Len(hf_in.questions))
    /\ pc' = AfterHf
    /\ UNCHANGED <<hf_in, hf_i, hf_log, envVars, genVars, mapVars, sanVars, tautVars, tplVars>>

\* one iteration of `for i in range(0, len(prompts), batch_size)`
HfBatch(raised, kinds) ==
    /\ pc = "hf" /\ hf_available /\ hf_i < NumPrompts
    /\ LET n == Min(hf_in.batch_size, NumPrompts - hf_i)
           results == [j \in 1..Len(kinds) |-> ResultOf(kinds[j], hf_in.questions[hf_i + j])]
           after == AnswersAfterBatch(answers, n, raised, results)
           failed == raised \/ \E j \in 1..n : ReadRaises(results[j])
       IN  /\ kinds \in ReturnsOf(raised, n)
           /\ answers' = after
           /\ hf_i' = NextBatchStart(hf_i, hf_in.batch_size, NumPrompts, failed)
           /\ hf_log' = Append(hf_log, [start |-> hf_i, size |-> n, raised |-> raised,
                                        kinds |-> kinds, failed |-> failed,
                                        before |-> Len(answers), after |-> Len(after)])
    /\ UNCHANGED <<pc, hf_in, envVars, genVars, mapVars, sanVars, tautVars, tplVars>>

\* return answers
HfReturn ==
    /\ pc = "hf" /\ hf_available /\ hf_i >= NumPrompts
    /\ pc' = AfterHf
    /\ UNCHANGED <<hfVars, envVars, genVars, mapVars, sanVars, tautVars, tplVars>>

HfStep ==
    \/ HfUnavailable
    \/ /\ pc = "hf" /\ hf_available
       /\ \E raised \in BOOLEAN :
            \E kinds \in ReturnsOf(raised, Min(hf_in.batch_size, NumPrompts - hf_i)) :
                HfBatch(raised, kinds)
    \/ HfReturn

(***************************************************************************)
(* Answer harness: generate_hf_answers called on its own                   *)
(***************************************************************************)
DirectQuestions == <<<<"q","1">>, <<"q","2">>, <<"q","3">>, <<"q","4">>, <<"q","5">>>>
DirectContexts == <<<<"c","1">>, <<"c","2">>, <<"c","3">>, <<"c","4">>, <<"c","5">>>>

InitHf ==
    /\ pc = "hf"
    /\ nltk_available = FALSE
    /\ hf_available \in BOOLEAN
    /\ \E n \in 0..MaxDirect : \E b \in 1..MaxBatch :
            hf_in = [questions |-> SubSeq(DirectQuestions, 1, n),
                     contexts |-> SubSeq(DirectContexts, 1, n),
                     batch_size |-> b, caller |-> "direct"]
    /\ hf_i = 0 /\ answers = <<>> /\ hf_log = <<>>
    /\ GenIdle /\ MapIdle /\ SanIdle /\ TautIdle /\ TplIdle

SpecHf == InitHf /\ [][HfStep]_vars

\* C3: in generate_hf_answers a failure of the generation capability on one batch does
\* not abort the run: None is recorded for every item of the failed batch, and every
\* later batch is still submitted and its answers recorded.
C3_FailedBatchDoesNotAbort ==
    /\ \A k \in 1..Len(hf_log) :
          LET e == hf_log[k]
          IN  /\ e.start = (k - 1) * hf_in.batch_size
              /\ e.size = Min(hf_in.batch_size, Len(hf_in.questions) - e.start)
              /\ e.failed =>
                    /\ e.after >= e.before + e.size
                    /\ \A j \in 1..e.size : answers[e.after - e.size + j] = PyNone
              /\ ~e.failed =>
                    /\ e.after = e.before + e.size
                    /\ \A j \in 1..e.size :
                          answers[e.before + j] =
                            IF e.kinds[j] \in {"text", "prefixed", "textkey"}
                            THEN hf_in.questions[e.start + j] ELSE EmptyStr
    /\ (pc = "done" /\ hf_available) =>
            Len(hf_log) * hf_in.batch_size >= Len(hf_in.questions)

\* C3 witness: the run returned after a batch that failed was followed by a batch whose
\* answers were recorded.
C3_Witness ==
    /\ pc = "done"
    /\ \E k \in 1..(Len(hf_log) - 1) :
            /\ hf_log[k].failed /\ ~hf_log[k + 1].failed
            /\ answers[hf_log[k + 1].before + 1] = hf_in.questions[hf_log[k + 1].start + 1]

(***************************************************************************)
(* generate_questions_from_map.py: generate_questions                      *)
(***************************************************************************)
\* One entry of the 'relationships' list: a dict (a missing key reads as ''), a list or
\* tuple of three, or anything else. `relationship` is what the code reads as the verb:
\* rel.get("relationship", rel.get("verb", "")) of a dict, str(rel[1]) of a list.
DictRel(s, v, t) == [kind |-> "dict", source |-> s, relationship |-> v, target |-> t]
ListRel(s, v, t) == [kind |-> "list", source |-> s, relationship |-> v, target |-> t]
OtherRel == [kind |-> "other", source |-> EmptyStr, relationship |-> EmptyStr,
             target |-> EmptyStr]

\* The body of `for rel in relationships` up to select_templates_and_answer: the cleaned
\* triple and the first test that drops it ("selected" when none does).
GateOf(rel, nltk) ==
    IF rel.kind = "other"
    THEN [status |-> "skipped", source |-> EmptyStr, verb |-> EmptyStr, target |-> EmptyStr]
    ELSE IF rel.kind = "dict" /\ IsPyInt(rel.relationship)
    \* AttributeError: 'int' object has no attribute 'strip'
    THEN [status |-> "raised", source |-> EmptyStr, verb |-> EmptyStr, target |-> EmptyStr]
    ELSE LET gated(source, verb, target) ==
                [status |->
                    IF source = EmptyStr \/ verb = EmptyStr \/ target = EmptyStr
                        THEN "empty"
                    ELSE IF is_generic_concept(source) \/ is_generic_concept(target)
                        THEN "generic"
                    ELSE IF is_blacklisted_verb(verb) THEN "blacklisted"
                    ELSE IF ~is_valid_verb(verb, nltk) THEN "invalid_verb"
                    ELSE IF is_tautology(source, target) THEN "tautology"
                    ELSE "selected",
                 source |-> source, verb |-> verb, target |-> target]
         IN  gated(clean_concept(rel.source),
                   lemmatize_verb(Lower(Strip(rel.relationship)), nltk),
                   clean_concept(rel.target))

\* the limit tested with > instead of >=
LimitReachedLate(limit, n) == limit # <<>> /\ limit[1] # 0 /\ n > limit[1]

\* if num_questions and len(all_questions) >= num_questions
LimitReached(limit, n) == limit # <<>> /\ limit[1] # 0 /\ n >= limit[1]

\* `for q, template_a in pairs` from pair j on; origin is the index of the relationship
RECURSIVE AppendPairs(_, _, _, _, _, _)
AppendPairs(acc, g, pairs, j, origin, limit) ==
    IF j > Len(pairs) THEN acc
    ELSE LET appended(acc2) ==
                IF LimitReached(limit, Len(acc2)) THEN acc2
                ELSE AppendPairs(acc2, g, pairs, j + 1, origin, limit)
             checked(q) ==
                IF is_incomplete_question(q)
                THEN AppendPairs(acc, g, pairs, j + 1, origin, limit)
                ELSE appended(Append(acc,
                        [question |-> q,
                         context |-> g.source \o Sp \o g.verb \o Sp \o g.target \o <<".">>,
                         template_a |-> pairs[j][2],
                         source |-> g.source, verb |-> g.verb, target |-> g.target,
                         origin |-> origin]))
         IN  checked(spellcheck_question(pairs[j][1]))

\* `for rel in relationships` from entry k on
RECURSIVE CollectFrom(_, _, _, _, _, _)
CollectFrom(rels, k, acc, tr, limit, nltk) ==
    IF k > Len(rels) THEN [cands |-> acc, trace |-> tr, raised |-> FALSE]
    ELSE LET appended(acc2, tr2) ==
                IF LimitReached(limit, Len(acc2))
                THEN [cands |-> acc2, trace |-> tr2, raised |-> FALSE]
                ELSE CollectFrom(rels, k + 1, acc2, tr2, limit, nltk)
             selected(g, pairs) ==
                appended(AppendPairs(acc, g, pairs, 1, k, limit),
                         Append(tr, [origin |-> k, status |-> g.status, verb |-> g.verb,
                                     bucket |-> VerbBucket(g.verb), pairs |-> pairs]))
             gated(g) ==
                IF g.status = "raised"
                THEN [cands |-> acc,
                      trace |-> Append(tr, [origin |-> k, status |-> g.status, verb |-> g.verb,
                                            bucket |-> "", pairs |-> <<>>]),
                      raised |-> TRUE]
                ELSE IF g.status # "selected"
                THEN CollectFrom(rels, k + 1, acc,
                                 Append(tr, [origin |-> k, status |-> g.status,
                                             verb |-> g.verb, bucket |-> "",
                                             pairs |-> <<>>]),
                                 limit, nltk)
                ELSE selected(g, select_templates_and_answer(g.source, g.verb, g.target))
         IN  gated(GateOf(rels[k], nltk))

\* a variant of ResolveAnswer without the fallback
ResolveAnswerNoFallback(hf_a, template_a) == IF hf_a # PyNone THEN hf_a ELSE EmptyStr

\* answer = hf_a if hf_a else template_a
ResolveAnswer(hf_a, template_a) ==
    IF hf_a # PyNone /\ hf_a # EmptyStr THEN hf_a ELSE template_a

\* the orders random.shuffle can leave a list of n entries in
Shuffles(n) == {p \in [1..n -> 1..n] : \A i, j \in 1..n : p[i] = p[j] => i = j}

\* if not relationships: return []
GenerateQuestionsEmpty ==
    /\ pc = "start" /\ concept_map = <<>>
    /\ questions' = <<>>
    /\ pc' = "done"
    /\ UNCHANGED <<concept_map, num_questions, trace, cands, hfVars, envVars,
                   mapVars, sanVars, tautVars, tplVars>>

\* random.shuffle(relationships), the loop over the relationships, and the call
\* generate_hf_answers(all_questions, all_contexts); an exception of the loop leaves
\* generate_questions
CollectQuestions(perm) ==
    /\ pc = "start" /\ concept_map # <<>>
    /\ \E shuffled \in {[i \in 1..Len(concept_map) |-> concept_map[perm[i]]]} :
       \E res \in {CollectFrom(shuffled, 1, <<>>, <<>>, num_questions, nltk_available)} :
           /\ concept_map' = shuffled
           /\ cands' = res.cands
           /\ trace' = res.trace
           /\ hf_in' = IF res.raised THEN hf_in
                        ELSE [questions |-> [i \in 1..Len(res.cands) |-> res.cands[i].question],
                              contexts |-> [i \in 1..Len(res.cands) |-> res.cands[i].context],
                              batch_size |-> DefaultBatchSize, caller |-> "generate_questions"]
           /\ pc' = IF res.raised THEN "raised" ELSE "hf"
    /\ hf_i' = 0 /\ answers' = <<>> /\ hf_log' = <<>>
    /\ UNCHANGED <<num_questions, questions, envVars, mapVars, sanVars, tautVars, tplVars>>

\* the zip over the six lists and hf_answers that builds the returned records
BuildRecords ==
    /\ pc = "build"
    /\ questions' = [i \in 1..Min(Len(cands), Len(answers)) |->
                        [question |-> cands[i].question,
                         answer |-> ResolveAnswer(answers[i], cands[i].template_a),
                         source |-> cands[i].source, verb |-> cands[i].verb,
                         target |-> cands[i].target, origin |-> cands[i].origin]]
    /\ pc' = "done"
    /\ UNCHANGED <<concept_map, num_questions, trace, cands, hfVars, envVars,
                   mapVars, sanVars, tautVars, tplVars>>

(***************************************************************************)
(* The question generator run on a concept map                             *)
(***************************************************************************)
RelUniverse == {
    DictRel(<<"p","h","o","t","o","s","y","n","t","h","e","s","i","s">>, <<"p","r","o","d","u","c","e","s">>, <<"g","l","u","c","o","s","e">>),
    DictRel(<<"w","a","t","e","r">>, <<"w","a","t","e","r">>, <<"i","c","e">>),
    DictRel(<<"c","e","l","l">>, <<"o","f">>, <<"n","u","c","l","e","u","s">>),
    DictRel(<<"e","n","e","r","g","y">>, <<"g","i","v","e","n">>, <<"p","l","a","n","t","s">>),
    ListRel(<<"t","h","e"," ","h","e","a","r","t">>, <<" ","P","u","m","p","s">>, <<"r","e","d"," ","b","l","o","o","d"," ","c","e","l","l","s",".">>),
    DictRel(<<"S","e","a"," ","W","a","t","e","r">>, <<"f","o","r","m">>, <<"s","e","a","w","a","t","e","r">>),
    DictRel(<<"i","t">>, <<"u","s","e">>, <<"c","o","2">>),
    DictRel(<<"I","t">>, <<"u","s","e">>, <<"e","n","e","r","g","y">>),
    DictRel(<<"c","e","l","l">>, PyInt(<<"5">>), <<"n","u","c","l","e","u","s">>),
    OtherRel }

\* a concept map whose questions fill more than one batch of the default size
LargeMap == <<
    DictRel(<<"t","h","e"," ","h","e","a","r","t">>, <<"p","u","m","p">>, <<"r","e","d"," ","b","l","o","o","d"," ","c","e","l","l","s">>),
    ListRel(<<"s","e","a"," ","w","a","t","e","r">>, <<"f","o","r","m">>, <<"s","a","l","t"," ","a","n","d"," ","w","a","t","e","r">>),
    DictRel(<<"h","o","t"," ","a","i","r">>, <<"m","o","v","e">>, <<"c","o","l","d"," ","a","i","r"," ","m","a","s","s","e","s">>) >>

InitGenerate ==
    /\ pc = "start"
    /\ nltk_available \in BOOLEAN
    /\ hf_available \in BOOLEAN
    /\ concept_map \in UNION {[1..k -> RelUniverse] : k \in 0..MaxRels} \cup {LargeMap}
    /\ num_questions \in {<<>>} \cup {<<n>> : n \in 0..MaxLimit}
    /\ trace = <<>> /\ cands = <<>> /\ questions = <<>>
    /\ HfIdle /\ MapIdle /\ SanIdle /\ TautIdle /\ TplIdle

NextGenerate ==
    \/ GenerateQuestionsEmpty
    \/ \E perm \in Shuffles(Len(concept_map)) : CollectQuestions(perm)
    \/ HfStep
    \/ BuildRecords

SpecGenerate == InitGenerate /\ [][NextGenerate]_vars

\* The record loop of generate_questions, the part of C2 that holds: every question record
\* returned has a non-empty answer, and record i has its templated answer when entry i of
\* the list generate_hf_answers returned is None or an empty string, entry i being what the
\* zip of the record loop pairs with question i.
C2_FallbackGuarantee ==
    pc = "done" =>
        \A i \in 1..Len(questions) :
            /\ questions[i].answer # EmptyStr /\ questions[i].answer # PyNone
            /\ questions[i].question = cands[i].question
            /\ (answers[i] = PyNone \/ answers[i] = EmptyStr) =>
                    questions[i].answer = cands[i].template_a

\* The record loop at work: of the records returned, one had None from a batch whose call raised, one
\* an empty generated string and one a generated answer, which it kept.
C2_Witness ==
    /\ pc = "done"
    /\ \E k \in 1..Len(hf_log) : hf_log[k].raised
    /\ \E i, j, l \in 1..Len(questions) :
            /\ answers[i] = PyNone /\ questions[i].answer = cands[i].template_a
            /\ answers[j] = EmptyStr /\ questions[j].answer = cands[j].template_a
            /\ answers[l] # PyNone /\ answers[l] # EmptyStr
            /\ questions[l].answer = answers[l]

\* C4: Verb gate monotonicity: for every relationship of the input graph whose verb is a
\* member of the blacklist, generate_questions emits no question record for that
\* relationship, whatever its source and target are.
C4_BlacklistedVerbEmitsNothing ==
    \A i \in 1..Len(questions) :
        concept_map[questions[i].origin].relationship \notin blacklisted_verbs

\* C7: the triple ("water", "water", "ice") is rejected before template selection:
\* no candidate pair is selected for it and generate_questions emits no question record
\* for it. (is_tautology compares source and target only, so the gate that can stop
\* the triple is the verb's validity check.)
C7_WaterRejected ==
    \A k \in 1..Len(trace) :
        concept_map[k] = DictRel(<<"w","a","t","e","r">>, <<"w","a","t","e","r">>, <<"i","c","e">>) =>
            /\ trace[k].status # "selected" /\ trace[k].pairs = <<>>
            /\ \A i \in 1..Len(questions) : questions[i].origin # k

\* C8: for the triple ("photosynthesis", "produces", "glucose") the verb is
\* classified into the general bucket and the candidate pairs include "What is the
\* relationship between photosynthesis and glucose?" with answer "photosynthesis and
\* glucose are related by produces." and "What does photosynthesis produce?" with answer
\* "glucose".
C8_ProducesScenario ==
    \A k \in 1..Len(trace) :
        concept_map[k] = DictRel(<<"p","h","o","t","o","s","y","n","t","h","e","s","i","s">>, <<"p","r","o","d","u","c","e","s">>, <<"g","l","u","c","o","s","e">>) =>
            /\ trace[k].bucket = "general"
            /\ <<<<"W","h","a","t"," ","i","s"," ","t","h","e"," ","r","e","l","a","t","i","o","n","s","h","i","p"," ","b","e","t","w","e","e","n"," ","p","h","o","t","o","s","y","n","t","h","e","s","i","s"," ","a","n","d"," ","g","l","u","c","o","s","e","?">>,
                  <<"p","h","o","t","o","s","y","n","t","h","e","s","i","s"," ","a","n","d"," ","g","l","u","c","o","s","e"," ","a","r","e"," ","r","e","l","a","t","e","d"," ","b","y"," ","p","r","o","d","u","c","e","s",".">>>>
                    \in Range(trace[k].pairs)
            /\ <<<<"W","h","a","t"," ","d","o","e","s"," ","p","h","o","t","o","s","y","n","t","h","e","s","i","s"," ","p","r","o","d","u","c","e","?">>, <<"g","l","u","c","o","s","e">>>>
                    \in Range(trace[k].pairs)

\* C15: Verb validity is a hard gate: the verb of every record generate_questions returns
\* is recognized (with the lexical library, a WordNet verb; without it, a member of
\* COMMON_ENGLISH_VERBS), and it is the lemmatized verb of the record's relationship; a
\* relationship whose lemmatized verb is empty or not recognized has no record.
C15_VerbValidityHardGate ==
    \A i \in 1..Len(questions) :
        LET rel == concept_map[questions[i].origin]
            lemma == lemmatize_verb(Lower(Strip(rel.relationship)), nltk_available)
        IN  /\ rel.kind # "other"
            /\ questions[i].verb = lemma
            /\ lemma # EmptyStr
            /\ IF nltk_available
               THEN WordNetLemmatize(lemma) \in WordNetVerbs
               ELSE lemma \in COMMON_ENGLISH_VERBS

\* C15 witness: without the lexical library a run returned records for one relationship
\* and dropped another at the verb validity test.
C15_Witness ==
    /\ pc = "done" /\ ~nltk_available /\ questions # <<>>
    /\ \E k \in 1..Len(trace) : trace[k].status = "invalid_verb"

\* C17: When the sequence-generation capability is unavailable, generate_hf_answers
\* returns None for every question and submits no batch to a generator, and every record
\* generate_questions returns carries the templated answer that
\* select_templates_and_answer paired with its question.
C17_UnavailableUsesTemplates ==
    (pc = "done" /\ ~hf_available /\ concept_map # <<>>) =>
        /\ hf_log = <<>>
        /\ answers = [i \in 1..Len(cands) |-> PyNone]
        /\ Len(questions) = Len(cands)
        /\ \A i \in 1..Len(questions) :
                /\ questions[i].question = cands[i].question
                /\ questions[i].answer = cands[i].template_a
                /\ \E j \in 1..Len(trace[questions[i].origin].pairs) :
                        LET pair == trace[questions[i].origin].pairs[j]
                        IN  /\ spellcheck_question(pair[1]) = questions[i].question
                            /\ pair[2] = questions[i].answer

\* C17 witness: a run without the capability returned more records than one batch holds.
C17_Witness ==
    /\ pc = "done" /\ ~hf_available
    /\ Len(questions) > DefaultBatchSize
    /\ hf_log = <<>>

\* C18: Every record generate_questions returns has a source and a target that are the
\* non-empty results of clean_concept on its relationship's source and target, neither
\* a generic word when lower-cased, and not identical after trimming, lower-casing and
\* removing spaces.
C18_RecordConceptsClean ==
    \A k \in {questions[i].origin : i \in 1..Len(questions)} :
        LET clean(source, target) ==
                /\ source # EmptyStr /\ target # EmptyStr
                /\ Lower(source) \notin GENERIC_WORDS
                /\ Lower(target) \notin GENERIC_WORDS
                /\ RemoveSpaces(Lower(Strip(source))) # RemoveSpaces(Lower(Strip(target)))
                /\ \A i \in 1..Len(questions) :
                        questions[i].origin = k =>
                            questions[i].source = source /\ questions[i].target = target
        IN  clean(clean_concept(concept_map[k].source), clean_concept(concept_map[k].target))

\* C18 witness: a run returned records for one relationship and dropped another for its
\* capitalised generic source.
C18_Witness ==
    /\ pc = "done" /\ questions # <<>>
    /\ \E k \in 1..Len(trace) :
            /\ trace[k].status = "generic"
            /\ concept_map[k].source = <<"I","t">>

CodePointOrder == <<
    "\t", "\n", "\r", " ", "!", ",", "-", ".", "0", "1", "2", "3", "4", "5", "6", "7",
    "8", "9", ":", ";", "?", "_", "a", "b", "c", "d", "e", "f", "g", "h", "i", "j",
    "k", "l", "m", "n", "o", "p", "q", "r", "s", "t", "u", "v", "w", "x", "y", "z" >>

CodePointRank(c) == CHOOSE i \in 1..Len(CodePointOrder) : CodePointOrder[i] = c

\* a < b for two str values
StrLess(a, b) ==
    \E i \in 1..Len(b) :
        /\ \A j \in 1..(i - 1) : j <= Len(a) /\ a[j] = b[j]
        /\ (i > Len(a) \/ CodePointRank(a[i]) < CodePointRank(b[i]))

\* s < t for two tuples of str of the same length
TupleLess(s, t) ==
    \E i \in 1..Len(s) : (\A j \in 1..(i - 1) : s[j] = t[j]) /\ StrLess(s[i], t[i])

\* sorted(list(self.concepts))
SortedConcepts(cs) ==
    [r \in 1..Cardinality(cs) |->
        CHOOSE x \in cs : Cardinality({y \in cs : StrLess(y, x)}) = r - 1]

\* a variant of SortedRelationships that keeps the triples in the order of emission
RelationshipsAsEmitted(rels) == rels

\* a variant of SortedRelationships that writes each distinct triple once
SortedDistinctRelationships(rels) ==
    [r \in 1..Cardinality(Range(rels)) |->
        CHOOSE x \in Range(rels) : Cardinality({y \in Range(rels) : TupleLess(y, x)}) = r - 1]

\* sorted(self.relationships): a stable sort of the list of tuples
SortedRelationships(rels) ==
    LET Rank(i) == 1 + Cardinality({j \in 1..Len(rels) :
                        TupleLess(rels[j], rels[i]) \/ (rels[j] = rels[i] /\ j < i)})
    IN  [r \in 1..Len(rels) |-> rels[CHOOSE i \in 1..Len(rels) : Rank(i) = r]]

\* the dict save_concept_map builds
ConceptMapOf(cs, rels) ==
    LET sorted == SortedRelationships(rels)
    IN  [concepts |-> SortedConcepts(cs),
         relationships |-> [i \in 1..Len(sorted) |->
                                [source |-> sorted[i][1], relationship |-> sorted[i][2],
                                 target |-> sorted[i][3]]]]

\* the characters json writes as a two-character escape, with the second character
JsonEscapes == << <<"\"", "\"">>, <<"\\", "\\">>, <<"\n", "n">>, <<"\r", "r">>,
                  <<"\t", "t">> >>

\* a str as json.dump writes it with ensure_ascii=False: quoted, the quote, the
\* backslash and the control characters escaped
RECURSIVE JsonEscapeFrom(_, _)
JsonEscapeFrom(s, i) ==
    IF i > Len(s) THEN EmptyStr
    ELSE (IF \E k \in 1..Len(JsonEscapes) : JsonEscapes[k][1] = s[i]
          THEN <<"\\", JsonEscapes[CHOOSE k \in 1..Len(JsonEscapes) :
                                        JsonEscapes[k][1] = s[i]][2]>>
          ELSE <<s[i]>>) \o JsonEscapeFrom(s, i + 1)

JsonEncodeString(s) == <<"\"">> \o JsonEscapeFrom(s, 1) \o <<"\"">>

\* the str json.load reads from a string literal
RECURSIVE JsonUnescapeFrom(_, _)
JsonUnescapeFrom(t, i) ==
    IF i >= Len(t) THEN EmptyStr
    ELSE IF t[i] = "\\"
        THEN <<JsonEscapes[CHOOSE k \in 1..Len(JsonEscapes) :
                                JsonEscapes[k][2] = t[i + 1]][1]>>
                \o JsonUnescapeFrom(t, i + 2)
        ELSE <<t[i]>> \o JsonUnescapeFrom(t, i + 1)

JsonDecodeString(t) == JsonUnescapeFrom(t, 2)

\* json.dump(concept_map, f, indent=2, ensure_ascii=False): the document, each str of
\* it in its written form
JsonDump(cm) ==
    [concepts |-> [i \in 1..Len(cm.concepts) |-> JsonEncodeString(cm.concepts[i])],
     relationships |-> [i \in 1..Len(cm.relationships) |->
            [source |-> JsonEncodeString(cm.relationships[i].source),
             relationship |-> JsonEncodeString(cm.relationships[i].relationship),
             target |-> JsonEncodeString(cm.relationships[i].target)]]]

\* what json.load makes of a written value: a str of a quoted one, an int of digits
JsonDecodeValue(t) == IF t[1] = "\"" THEN JsonDecodeString(t) ELSE PyInt(t)

\* json.load(f) of a document that is a JSON object, such as save_concept_map writes
JsonLoad(doc) ==
    IF "relationships" \notin DOMAIN doc
    THEN [concepts |-> [i \in 1..Len(doc.concepts) |-> JsonDecodeString(doc.concepts[i])]]
    ELSE
    [concepts |-> [i \in 1..Len(doc.concepts) |-> JsonDecodeString(doc.concepts[i])],
     relationships |-> [i \in 1..Len(doc.relationships) |->
            [source |-> JsonDecodeString(doc.relationships[i].source),
             relationship |-> JsonDecodeValue(doc.relationships[i].relationship),
             target |-> JsonDecodeString(doc.relationships[i].target)]]]

\* what load_concept_map does: it returns None or the parsed data, or an exception
\* leaves it
LoadedNone == [none |-> TRUE, raised |-> FALSE, data |-> <<>>]
LoadedData(data) == [none |-> FALSE, raised |-> FALSE, data |-> data]
LoadedRaised == [none |-> FALSE, raised |-> TRUE, data |-> <<>>]

\* The file is absent (<<>>) or holds a text: "invalid" is no JSON document, "scalar" a
\* JSON number, true, false or null, "json" a JSON object, given by its members.
load_concept_map(f) ==
    IF f = <<>> THEN LoadedNone                      \* FileNotFoundError
    ELSE IF f[1].text = "invalid" THEN LoadedNone    \* json.JSONDecodeError
    ELSE IF f[1].text = "scalar" THEN LoadedRaised   \* TypeError of `"relationships" not in data`
    ELSE LET data == JsonLoad(f[1].doc)
         IN  IF "relationships" \notin DOMAIN data THEN LoadedNone
             ELSE IF data.relationships = <<>> THEN LoadedNone
             ELSE LoadedData(data)

\* save_concept_map sorting self.relationships in place before it writes them
SaveConceptMapSorting ==
    /\ pc \in {"extracted", "graph", "built"}
    /\ relationships' = SortedRelationships(relationships)
    /\ file' = <<[text |-> "json", doc |-> JsonDump(ConceptMapOf(concepts, relationships))]>>
    /\ pc' = IF pc = "extracted" THEN "saved" ELSE pc
    /\ UNCHANGED <<concepts, loaded, extVars, envVars, genVars, hfVars,
                   sanVars, tautVars, tplVars>>

\* extractor.save_concept_map(output_file)
SaveConceptMap ==
    /\ pc \in {"extracted", "graph", "built"}
    /\ file' = <<[text |-> "json", doc |-> JsonDump(ConceptMapOf(concepts, relationships))]>>
    /\ pc' = IF pc = "extracted" THEN "saved" ELSE pc
    /\ UNCHANGED <<concepts, relationships, loaded, extVars, envVars, genVars, hfVars,
                   sanVars, tautVars, tplVars>>

\* concept_map = load_concept_map(json_path)
LoadConceptMap ==
    /\ pc \in {"extracted", "saved"}
    /\ loaded' = <<load_concept_map(file)>>
    /\ pc' = "loaded"
    /\ UNCHANGED <<concepts, relationships, file, extVars, envVars, genVars, hfVars,
                   sanVars, tautVars, tplVars>>

(***************************************************************************)
(* Round-trip harness: an extractor state is saved and the file loaded     *)
(***************************************************************************)
\* concepts as extract_from_text adds them: lower-cased, trimmed, passing is_valid_concept
ConceptUniverse == {<<"c","e","l","l">>, <<"c","e","l","l"," ","w","a","l","l">>, <<"p","l","a","n","t","\n","c","e","l","l">>}

\* relationship verbs as extract_from_text emits them: lower-cased, not generic
VerbUniverse == {<<"p","u","m","p">>, <<"s","u","r","r","o","u","n","d">>}

InitRoundTrip ==
    /\ pc = "extracted"
    /\ concepts \in SUBSET ConceptUniverse
    /\ relationships \in UNION {[1..n -> concepts \X VerbUniverse \X concepts] :
                                    n \in 0..MaxTriples}
    /\ file = <<>> /\ loaded = <<>> /\ ExtIdle
    /\ nltk_available = FALSE /\ hf_available = FALSE
    /\ GenIdle /\ HfIdle /\ SanIdle /\ TautIdle /\ TplIdle

NextRoundTrip == SaveConceptMap \/ LoadConceptMap

SpecRoundTrip == InitRoundTrip /\ [][NextRoundTrip]_vars

\* the triples of a loaded relationships list
LoadedTriples(data) ==
    [i \in 1..Len(data.relationships) |->
        <<data.relationships[i].source, data.relationships[i].relationship,
          data.relationships[i].target>>]

\* s and t hold the same entries the same number of times
SameEntries(s, t) ==
    /\ Len(s) = Len(t)
    /\ \A x \in Range(s) \cup Range(t) :
            Cardinality({i \in 1..Len(s) : s[i] = x}) =
            Cardinality({i \in 1..Len(t) : t[i] = x})

\* the loaded data holds the concept set and the triples of the extractor, the triples
\* in ascending order of (source, relationship, target)
RoundTripHolds ==
    /\ ~loaded[1].none
    /\ Range(loaded[1].data.concepts) = concepts
    /\ SameEntries(LoadedTriples(loaded[1].data), relationships)
    /\ \A i \in 1..(Len(relationships) - 1) :
            ~TupleLess(LoadedTriples(loaded[1].data)[i + 1],
                       LoadedTriples(loaded[1].data)[i])

\* C5 (as stated): Graph round-trip: for every extractor state (any concept set and any
\* list of triples, an empty list included), writing it with save_concept_map and
\* reloading the file with load_concept_map yields the same concept set and the same
\* relationship list, ordered by (source, relationship, target).
C5_RoundTrip ==
    (pc = "loaded" /\ file # <<>>) => RoundTripHolds

\* C5 (amended): for every extractor state with at least one triple, writing it with
\* save_concept_map and reloading the file with load_concept_map yields the same concept
\* set and the same relationship list, ordered by (source, relationship, target); for a
\* state with an empty list of triples load_concept_map returns None.
C5_RoundTripNonEmpty ==
    (pc = "loaded" /\ file # <<>>) =>
        IF relationships = <<>> THEN loaded[1].none ELSE RoundTripHolds

\* C5 witness: a state with two triples emitted out of order and a concept holding a
\* line break was saved and loaded back.
C5_Witness ==
    /\ pc = "loaded" /\ file # <<>> /\ ~loaded[1].none
    /\ Len(relationships) = 2 /\ TupleLess(relationships[2], relationships[1])
    /\ \E c \in concepts : "\n" \in Range(c)

\* C16: save_concept_map writes the concepts in ascending order, each once, and the
\* relationships in ascending order of (source, verb, target), a triple emitted several
\* times written as often; an extractor holding the same concepts and the same triples
\* in any other order of emission writes the same document.
C16_SaveIsCanonical ==
    (pc = "saved" /\ file # <<>>) =>
        LET canonical(written, triples) ==
                /\ Range(written) = concepts
                /\ \A i \in 1..(Len(written) - 1) : StrLess(written[i], written[i + 1])
                /\ SameEntries(triples, relationships)
                /\ \A i \in 1..(Len(triples) - 1) : ~TupleLess(triples[i + 1], triples[i])
            written(data) == canonical(data.concepts, LoadedTriples(data))
        IN  /\ written(JsonLoad(file[1].doc))
            /\ \A p \in Shuffles(Len(relationships)) :
                    JsonDump(ConceptMapOf(concepts,
                                 [i \in 1..Len(relationships) |-> relationships[p[i]]]))
                        = file[1].doc

\* C16 witness: an extractor with three concepts and two triples, the smaller emitted
\* last, was saved.
C16_Witness ==
    /\ pc = "saved" /\ file # <<>>
    /\ Cardinality(concepts) = 3
    /\ Len(relationships) = 2
    /\ TupleLess(relationships[2], relationships[1])

\* C16 witness for a repeated triple: it was saved twice
C16_WitnessRepeated ==
    /\ pc = "saved" /\ file # <<>>
    /\ Len(relationships) = 2 /\ relationships[1] = relationships[2]
    /\ Len(file[1].doc.relationships) = 2

(***************************************************************************)
(* generate_questions_from_map.py: main                                    *)
(***************************************************************************)
MaxFiles == 3

\* a concept map file holding the JSON object with the given relationships, each a
\* <<source, verb, target>> of written values
MapFile(rels) ==
    <<[text |-> "json",
       doc |-> [concepts |-> <<>>,
                relationships |-> [i \in 1..Len(rels) |->
                    [source |-> rels[i][1], relationship |-> rels[i][2],
                     target |-> rels[i][3]]]]]>>

HeartPumps ==
    <<JsonEncodeString(<<"t","h","e"," ","h","e","a","r","t">>), JsonEncodeString(<<"p","u","m","p">>),
      JsonEncodeString(<<"r","e","d"," ","b","l","o","o","d"," ","c","e","l","l","s">>)>>

\* the files of a run: not valid JSON, the JSON number 5, an object without the key
\* 'relationships', one with an empty list, a map with questions, a map whose only
\* relationship has a blacklisted verb, and a map with a relationship whose verb is 5
MainFiles == {
    <<[text |-> "invalid", doc |-> [concepts |-> <<>>]]>>,
    <<[text |-> "scalar", doc |-> [concepts |-> <<>>]]>>,
    <<[text |-> "json", doc |-> [concepts |-> <<>>]]>>,
    MapFile(<<>>),
    MapFile(<<HeartPumps>>),
    MapFile(<<<<JsonEncodeString(<<"c","e","l","l">>), JsonEncodeString(<<"o","f">>),
                JsonEncodeString(<<"n","u","c","l","e","u","s">>)>>>>),
    MapFile(<<HeartPumps,
              <<JsonEncodeString(<<"c","e","l","l">>), <<"5">>, JsonEncodeString(<<"n","u","c","l","e","u","s">>)>>>>) }

\* generate_questions(concept_map) where the generation pipeline is not loaded: the
\* records, or "raised"
RecordsOf(data, perm, nltk) ==
    LET built(res) ==
            IF res.raised THEN [raised |-> TRUE, questions |-> <<>>]
            ELSE [raised |-> FALSE,
                  questions |-> [i \in 1..Len(res.cands) |->
                        [question |-> res.cands[i].question,
                         answer |-> ResolveAnswer(PyNone, res.cands[i].template_a),
                         source |-> res.cands[i].source, verb |-> res.cands[i].verb,
                         target |-> res.cands[i].target]]]
    IN  built(CollectFrom([i \in 1..Len(data.relationships) |->
                              DictRel(data.relationships[perm[i]].source,
                                      data.relationships[perm[i]].relationship,
                                      data.relationships[perm[i]].target)],
                          1, <<>>, <<>>, <<>>, nltk))

\* the number of relationships random.shuffle permutes for the file
ShuffledCount(f) ==
    IF f # <<>> /\ f[1].text = "json" /\ "relationships" \in DOMAIN f[1].doc
    THEN Len(f[1].doc.relationships) ELSE 0

\* One pass of the body of `for json_path in json_files` (the same statements handle the
\* one file of a run that names its file): txt_ok and csv_ok tell whether opening and
\* writing the two output files succeeds; an IOError is caught by the function saving.
ProcessFile(perm, txt_ok, csv_ok) ==
    /\ pc = "main" /\ Len(run_log) < Len(json_files)
    /\ LET entry(load, generated, n, txt, csv) ==
                [load |-> load, generated |-> generated, records |-> n, txt |-> txt,
                 csv |-> csv]
           saved(ok) == IF ok THEN "written" ELSE "ioerror"
           generated(g) ==
                IF g.raised
                THEN /\ run_log' = Append(run_log, entry("data", "raised", 0, "none", "none"))
                     /\ pc' = "crashed"
                ELSE IF g.questions = <<>>
                THEN /\ run_log' = Append(run_log, entry("data", "empty", 0, "none", "none"))
                     /\ pc' = pc
                ELSE /\ run_log' = Append(run_log,
                                        entry("data", "records", Len(g.questions),
                                              saved(txt_ok), saved(csv_ok)))
                     /\ pc' = pc
           loadedAs(l) ==
                IF l.raised
                THEN /\ run_log' = Append(run_log, entry("raised", "not_called", 0, "none", "none"))
                     /\ pc' = "crashed"
                ELSE IF l.none
                THEN /\ run_log' = Append(run_log, entry("none", "not_called", 0, "none", "none"))
                     /\ pc' = pc
                ELSE generated(RecordsOf(l.data, perm, nltk_available))
       IN  loadedAs(load_concept_map(json_files[Len(run_log) + 1]))
    /\ UNCHANGED <<validCalls, json_files, extract_log, lemma_log, graph, concepts, relationships, file,
                   loaded, envVars, genVars, hfVars, sanVars, tautVars, tplVars>>

\* the loop is over: print("Done processing all concept maps.")
MainDone ==
    /\ pc = "main" /\ Len(run_log) = Len(json_files)
    /\ pc' = "main_done"
    /\ UNCHANGED <<mapVars, envVars, genVars, hfVars, sanVars, tautVars, tplVars>>

\* A run over the files of the directory, which exist, or over the one file it names,
\* which may be absent; the generation pipeline is not loaded.
InitMain ==
    /\ pc = "main"
    /\ json_files \in UNION {[1..n -> MainFiles] : n \in 1..MaxFiles} \cup {<<<<>>>>}
    /\ run_log = <<>> /\ validCalls = <<>> /\ extract_log = <<>> /\ lemma_log = <<>>
    /\ graph = [nodes |-> {}, edges |-> <<>>]
    /\ concepts = {} /\ relationships = <<>> /\ file = <<>> /\ loaded = <<>>
    /\ nltk_available \in BOOLEAN /\ hf_available = FALSE
    /\ GenIdle /\ HfIdle /\ SanIdle /\ TautIdle /\ TplIdle

NextMain ==
    \/ /\ Len(run_log) < Len(json_files)
       /\ \E perm \in Shuffles(ShuffledCount(json_files[Len(run_log) + 1])) :
            \E txt_ok, csv_ok \in BOOLEAN : ProcessFile(perm, txt_ok, csv_ok)
    \/ MainDone

SpecMain == InitMain /\ [][NextMain]_vars

\* the file holds no usable map: it is absent, no JSON, or a JSON object without the
\* key 'relationships' or with an empty 'relationships'
NoUsableMap(f) ==
    \/ f = <<>>
    \/ f[1].text = "invalid"
    \/ /\ f[1].text = "json"
       /\ ("relationships" \notin DOMAIN f[1].doc \/ f[1].doc.relationships = <<>>)

\* C12: load_concept_map returns None, without raising, when the file is not found, is
\* not valid JSON, has no 'relationships' key or has an empty 'relationships' value, and
\* the caller then calls neither generate_questions nor a function writing output; in
\* every other case load_concept_map returns the parsed data.
C12_LoadReportsOrReturnsData ==
    \A k \in 1..Len(run_log) :
        IF NoUsableMap(json_files[k])
        THEN /\ run_log[k].load = "none"
             /\ run_log[k].generated = "not_called"
             /\ run_log[k].txt = "none" /\ run_log[k].csv = "none"
        ELSE run_log[k].load = "data"

\* C13: in a run over several files no error arising from a triple, from a question or
\* from writing an output file aborts the run: after a file for which generate_questions
\* or a write failed, the run goes on to the files that remain.
C13_BatchSurvivesFileErrors ==
    \A k \in 1..Len(run_log) :
        (\/ run_log[k].generated = "raised"
         \/ run_log[k].txt = "ioerror"
         \/ run_log[k].csv = "ioerror") => pc # "crashed"

(***************************************************************************)
(* extract_concepts.py: ConceptExtractor.is_valid_concept                  *)
(***************************************************************************)
\* self.stop_phrases
stop_phrases == {
    <<"a","n","s","w","e","r">>, <<"c","h","a","p","t","e","r">>, <<"e","x","a","m","p","l","e">>,
    <<"e","x","e","r","c","i","s","e">>, <<"f","i","g","u","r","e">>, <<"n","o","t","e">>,
    <<"p","a","g","e">>, <<"q","u","e","s","t","i","o","n">>, <<"s","e","c","t","i","o","n">>,
    <<"t","a","b","l","e">>, <<"u","n","i","t">> }

\* self.question_words
question_words == {
    <<"h","o","w">>, <<"w","h","a","t">>, <<"w","h","e","n">>, <<"w","h","e","r","e">>,
    <<"w","h","i","c","h">>, <<"w","h","o">>, <<"w","h","o","m">>, <<"w","h","o","s","e">>, <<"w","h","y">> }

\* sub in s
Contains(s, sub) ==
    \E i \in 1..(Len(s) - Len(sub) + 1) : SubSeq(s, i, i + Len(sub) - 1) = sub

\* str.replace('.', '')
RemovePeriods(s) == SelectSeq(s, LAMBDA c : c # ".")

\* str.isdigit(): at least one character and every character a digit
IsDigitStr(s) == s # EmptyStr /\ \A i \in 1..Len(s) : s[i] \in DigitChars

\* is_valid_concept with the length rule firing on either of its two tests
is_valid_concept_short_or(text) ==
    LET valid(t) ==
            IF \E phrase \in stop_phrases : Contains(t, phrase) THEN FALSE
            ELSE IF t \in question_words THEN FALSE
            ELSE IF Len(Split(t)) < 2 \/ Len(t) < 4 THEN FALSE
            ELSE IF IsDigitStr(RemovePeriods(t)) THEN FALSE
            ELSE TRUE
    IN  valid(Strip(Lower(text)))

\* def is_valid_concept(self, text)
is_valid_concept(text) ==
    LET valid(t) ==
            IF \E phrase \in stop_phrases : Contains(t, phrase) THEN FALSE
            ELSE IF t \in question_words THEN FALSE
            ELSE IF Len(Split(t)) < 2 /\ Len(t) < 4 THEN FALSE
            ELSE IF IsDigitStr(RemovePeriods(t)) THEN FALSE
            ELSE TRUE
    IN  valid(Strip(Lower(text)))

(***************************************************************************)
(* extract_concepts.py: ConceptExtractor.extract_from_text                 *)
(***************************************************************************)
\* self.generic_verbs
generic_verbs == {
    <<"a","l","l","o","w">>, <<"a","l","l","o","w","e","d">>, <<"a","l","l","o","w","s">>, <<"a","r","e">>,
    <<"b","e">>, <<"b","e","c","a","m","e">>, <<"b","e","c","o","m","e">>,
    <<"b","e","c","o","m","i","n","g">>, <<"b","e","e","n">>, <<"b","o","u","n","d","e","d">>,
    <<"c","a","l","l","e","d">>, <<"c","l","a","s","s","i","f","i","e","d">>, <<"c","o","m","e","s">>,
    <<"c","o","n","s","i","s","t","s">>, <<"c","o","n","t","a","i","n">>, <<"c","o","n","t","a","i","n","s">>,
    <<"e","x","p","l","a","i","n","s">>, <<"f","i","n","d">>, <<"f","o","r","m">>, <<"f","o","r","m","s">>,
    <<"f","o","u","n","d">>, <<"g","e","t">>, <<"g","i","v","e">>, <<"h","a","d">>, <<"h","a","s">>,
    <<"h","a","v","e">>, <<"h","a","v","i","n","g">>, <<"h","e","a","t">>, <<"h","e","l","p">>,
    <<"h","e","l","p","e","d">>, <<"h","e","l","p","s">>, <<"i","n","c","l","u","d","e">>,
    <<"i","n","c","l","u","d","e","s">>, <<"i","n","c","l","u","d","i","n","g">>, <<"i","s">>,
    <<"k","e","e","p">>, <<"k","e","p","t">>, <<"l","e","t">>, <<"l","e","t","'","s">>, <<"l","e","t","s">>,
    <<"m","a","d","e">>, <<"m","a","k","e">>, <<"m","e","e","t">>, <<"o","b","t","a","i","n">>,
    <<"p","r","o","d","u","c","e","d">>, <<"p","r","o","v","i","d","e","d">>, <<"p","u","t">>,
    <<"r","e","a","r","e","d">>, <<"s","e","c","r","e","t","e","s">>, <<"s","e","e">>, <<"s","e","e","n">>,
    <<"s","e","t">>, <<"s","h","o","w">>, <<"s","h","o","w","i","n","g">>, <<"s","h","o","w","s">>,
    <<"s","t","a","t","e","s">>, <<"s","u","p","p","o","r","t">>, <<"s","u","p","p","o","r","t","e","d">>,
    <<"s","u","p","p","o","r","t","s">>, <<"t","a","k","e">>, <<"u","s","e">>, <<"u","s","e","d">>,
    <<"u","s","i","n","g">>, <<"w","a","s">>, <<"w","e","r","e">>, <<"w","r","i","t","e">> }

\* What self.nlp(text) gives extract_from_text: the sentences of the document, each with
\* its tokens (text, dependency label, index of the head in the sentence; the root is
\* its own head), its noun chunks and its named entities (text, index of the root token).
Tok(text, dep, head) == [text |-> text, dep |-> dep, head |-> head]
Span(text, root) == [text |-> text, root |-> root]

\* len(concept.split()) <= 4
MaxChunkWords == 4

\* chunk.text.lower().strip()
SpanConcept(span) == Strip(Lower(span.text))

\* the concepts lines 71-79 add for the document
DocConcepts(doc) ==
    UNION {{SpanConcept(doc[n].chunks[i]) : i \in {j \in 1..Len(doc[n].chunks) :
                    /\ Len(Split(SpanConcept(doc[n].chunks[j]))) <= MaxChunkWords
                    /\ is_valid_concept(SpanConcept(doc[n].chunks[j]))}}
             \cup {SpanConcept(doc[n].ents[i]) : i \in {j \in 1..Len(doc[n].ents) :
                    is_valid_concept(SpanConcept(doc[n].ents[j]))}}
           : n \in 1..Len(doc)}

\* d[key] = value on a dict given as the list of its <<key, value>> items: a key the
\* dict holds keeps its place
DictPut(d, key, value) ==
    IF \E i \in 1..Len(d) : d[i][1] = key
    THEN [i \in 1..Len(d) |-> IF d[i][1] = key THEN <<key, value>> ELSE d[i]]
    ELSE Append(d, <<key, value>>)

\* the dict sentence_concepts of lines 84-93, filled from spans[k] on
\* (chunks is true for the noun chunks, which are taken up to MaxChunkWords words)
RECURSIVE PutSpans(_, _, _, _)
PutSpans(d, spans, k, chunks) ==
    IF k > Len(spans) THEN d
    ELSE LET put(concept) ==
                IF (chunks => Len(Split(concept)) <= MaxChunkWords)
                        /\ is_valid_concept(concept)
                THEN DictPut(d, concept, spans[k].root) ELSE d
         IN  PutSpans(put(SpanConcept(spans[k])), spans, k + 1, chunks)

\* sentence_concepts taking noun chunks of any number of words
sentence_concepts_any_length(sent) ==
    PutSpans(PutSpans(<<>>, sent.chunks, 1, FALSE), sent.ents, 1, FALSE)

sentence_concepts(sent) ==
    PutSpans(PutSpans(<<>>, sent.chunks, 1, TRUE), sent.ents, 1, FALSE)

\* the items of d for which `text in concept or head_token == token` holds, in the order
\* of the dict
Matching(d, text, token) ==
    SelectSeq(d, LAMBDA item : Contains(item[1], text) \/ item[2] = token)

\* the concept the loop `for c, head_token in sentence_concepts.items()` stops at, as a
\* list of none or one
FirstConcept(items) == IF items = <<>> THEN <<>> ELSE <<items[1][1]>>

\* token.head.children: the tokens whose head is the token, in the order of the sentence
Children(sent, h) ==
    SelectSeq(Indices(sent.tokens), LAMBDA c : c # h /\ sent.tokens[c].head = h)

\* the loop over the children of the verb going on after an object child was found
RECURSIVE ObjectChildrenAll(_, _, _, _, _, _)
ObjectChildrenAll(sent, d, concept, verb, kids, k) ==
    IF k > Len(kids) THEN [seen |-> FALSE, triples |-> <<>>]
    ELSE IF ~Contains(sent.tokens[kids[k]].dep, <<"o","b","j">>)
    THEN ObjectChildrenAll(sent, d, concept, verb, kids, k + 1)
    ELSE LET found(objs) ==
                IF objs # <<>> /\ is_valid_concept(concept)
                THEN <<<<concept, verb, objs[1][1]>>>> ELSE <<>>
         IN  [seen |-> TRUE,
              triples |-> found(SelectSeq(
                                Matching(d, sent.tokens[kids[k]].text, kids[k]),
                                LAMBDA item : is_valid_concept(item[1])))
                          \o ObjectChildrenAll(sent, d, concept, verb, kids, k + 1).triples]

\* Lines 108-118, `for child in token.head.children` from kids[k] on: seen tells whether
\* object_ was assigned, triples what was appended
RECURSIVE ObjectChildren(_, _, _, _, _, _)
ObjectChildren(sent, d, concept, verb, kids, k) ==
    IF k > Len(kids) THEN [seen |-> FALSE, triples |-> <<>>]
    ELSE IF ~Contains(sent.tokens[kids[k]].dep, <<"o","b","j">>)
    THEN ObjectChildren(sent, d, concept, verb, kids, k + 1)
    ELSE LET found(objs) ==
                IF objs # <<>> /\ is_valid_concept(concept)
                THEN <<<<concept, verb, objs[1][1]>>>> ELSE <<>>
             appended(triples) ==
                IF Strip(Lower(sent.tokens[kids[k]].text)) # EmptyStr
                THEN [seen |-> TRUE, triples |-> triples]
                ELSE [seen |-> TRUE,
                      triples |-> triples
                            \o ObjectChildren(sent, d, concept, verb, kids, k + 1).triples]
         IN  appended(found(SelectSeq(
                    Matching(d, sent.tokens[kids[k]].text, kids[k]),
                    LAMBDA item : is_valid_concept(item[1]))))

\* Lines 98-133, the branch `if "subj" in token.dep_` for token t of the sentence:
\* route is "skipped" for an empty or generic verb, "unresolved" when the subject is
\* no concept of the sentence, "object" when an object child was seen, else "proxy"
SubjectPass(sent, d, t) ==
    LET v == sent.tokens[t].head
        proxy(concept, verb, target) ==
            [route |-> "proxy", concept |-> concept,
             triples |-> IF is_valid_concept(concept) /\ target # <<>>
                                /\ is_valid_concept(target[1])
                         THEN <<<<concept, verb, target[1]>>>> ELSE <<>>]
        objects(concept, verb, res) ==
            IF res.seen
            THEN [route |-> "object", concept |-> concept, triples |-> res.triples]
            ELSE proxy(concept, verb,
                       FirstConcept(Matching(d, sent.tokens[v].text, v)))
        resolved(subj, verb) ==
            IF subj = <<>>
            THEN [route |-> "unresolved", concept |-> EmptyStr, triples |-> <<>>]
            ELSE objects(subj[1], verb,
                         ObjectChildren(sent, d, subj[1], verb, Children(sent, v), 1))
        verbed(verb) ==
            IF verb = EmptyStr \/ verb \in generic_verbs
            THEN [route |-> "skipped", concept |-> EmptyStr, triples |-> <<>>]
            ELSE resolved(FirstConcept(Matching(d, sent.tokens[t].text, t)), verb)
    IN  verbed(Lower(sent.tokens[v].text))

\* the source taken from the head of the verb whatever its children are
SourceFromHeadOnly(sent, d, t, kids, k, hh) ==
    FirstConcept(Matching(d, sent.tokens[hh].text, hh))

\* Lines 150-163: the concept the object's triple gets as its source, as a list of none
\* or one; kids are the children of the verb, hh is the head of the verb
RECURSIVE SourceAmongChildren(_, _, _, _, _, _)
SourceAmongChildren(sent, d, t, kids, k, hh) ==
    IF k > Len(kids) THEN FirstConcept(Matching(d, sent.tokens[hh].text, hh))
    ELSE IF kids[k] # t /\ Matching(d, sent.tokens[kids[k]].text, kids[k]) # <<>>
    THEN FirstConcept(Matching(d, sent.tokens[kids[k]].text, kids[k]))
    ELSE SourceAmongChildren(sent, d, t, kids, k + 1, hh)

\* Lines 136-171, the branch `elif "obj" in token.dep_` for token t: the triples appended
ObjectPass(sent, d, t) ==
    LET h == sent.tokens[t].head
        hh == sent.tokens[sent.tokens[t].head].head
        appended(concept, source) ==
            IF source # <<>> /\ is_valid_concept(source[1]) /\ is_valid_concept(concept)
            THEN <<<<source[1], Lower(sent.tokens[h].text), concept>>>> ELSE <<>>
        sourced(concept, bySubject) ==
            IF bySubject # <<>> THEN appended(concept, bySubject)
            ELSE appended(concept, SourceAmongChildren(sent, d, t, Children(sent, h), 1, hh))
        resolved(obj) ==
            IF obj = <<>> THEN <<>>
            ELSE sourced(obj[1],
                    IF Contains(sent.tokens[hh].dep, <<"s","u","b","j">>)
                            /\ Strip(Lower(sent.tokens[hh].text)) # EmptyStr
                    THEN FirstConcept(Matching(d, Strip(Lower(sent.tokens[hh].text)), hh))
                    ELSE <<>>)
    IN  IF Lower(sent.tokens[h].text) = EmptyStr \/ Lower(sent.tokens[h].text) \in generic_verbs
        THEN <<>>
        ELSE resolved(FirstConcept(Matching(d, sent.tokens[t].text, t)))

\* `for token in sent` from token t on: the triples appended, for every subject token
\* what the subject pass did and for every object token what the object pass appended
RECURSIVE TokensFrom(_, _, _, _)
TokensFrom(sent, d, t, acc) ==
    IF t > Len(sent.tokens) THEN acc
    ELSE IF Contains(sent.tokens[t].dep, <<"s","u","b","j">>)
    THEN LET logged(sp) ==
                TokensFrom(sent, d, t + 1,
                    [triples |-> acc.triples \o sp.triples,
                     subjects |-> Append(acc.subjects,
                                    [sent |-> sent, token |-> t, route |-> sp.route,
                                     concept |-> sp.concept, triples |-> sp.triples]),
                     objects |-> acc.objects])
         IN  logged(SubjectPass(sent, d, t))
    ELSE IF Contains(sent.tokens[t].dep, <<"o","b","j">>)
    THEN LET logged(op) ==
                TokensFrom(sent, d, t + 1,
                    [triples |-> acc.triples \o op,
                     subjects |-> acc.subjects,
                     objects |-> Append(acc.objects,
                                    [sent |-> sent, token |-> t, triples |-> op])])
         IN  logged(ObjectPass(sent, d, t))
    ELSE TokensFrom(sent, d, t + 1, acc)

\* `for sent in doc.sents` from sentence n on
RECURSIVE SentencesFrom(_, _, _)
SentencesFrom(doc, n, acc) ==
    IF n > Len(doc) THEN acc
    ELSE SentencesFrom(doc, n + 1, TokensFrom(doc[n], sentence_concepts(doc[n]), 1, acc))

\* extractor.extract_from_text(text), doc being self.nlp(self.clean_text(text))
ExtractFromText(doc) ==
    /\ pc \in {"extractor", "graph", "built"} /\ Len(extract_log) < MaxCalls
    /\ \E res \in {SentencesFrom(doc, 1,
                        [triples |-> <<>>, subjects |-> <<>>, objects |-> <<>>])} :
            /\ concepts' = concepts \cup DocConcepts(doc)
            /\ relationships' = relationships \o res.triples
            /\ extract_log' = Append(extract_log,
                    [doc |-> doc, before |-> Len(relationships),
                     subjects |-> res.subjects, objects |-> res.objects])
    /\ pc' = IF pc = "built" THEN "graph" ELSE pc
    /\ UNCHANGED <<validCalls, json_files, run_log, lemma_log, graph, file, loaded, envVars,
                   genVars, hfVars, sanVars, tautVars, tplVars>>

(***************************************************************************)
(* Extractor harness: is_valid_concept and extract_from_text are called    *)
(* on an extractor                                                         *)
(***************************************************************************)
\* "Plants absorb sunlight. Plants use water."
DocAbsorb == <<
    [tokens |-> <<Tok(<<"P","l","a","n","t","s">>, <<"n","s","u","b","j">>, 2), Tok(<<"a","b","s","o","r","b">>, <<"R","O","O","T">>, 2),
                  Tok(<<"s","u","n","l","i","g","h","t">>, <<"d","o","b","j">>, 2), Tok(<<".">>, <<"p","u","n","c","t">>, 2)>>,
     chunks |-> <<Span(<<"P","l","a","n","t","s">>, 1), Span(<<"s","u","n","l","i","g","h","t">>, 3)>>,
     ents |-> <<>>],
    [tokens |-> <<Tok(<<"P","l","a","n","t","s">>, <<"n","s","u","b","j">>, 2), Tok(<<"u","s","e">>, <<"R","O","O","T">>, 2),
                  Tok(<<"w","a","t","e","r">>, <<"d","o","b","j">>, 2), Tok(<<".">>, <<"p","u","n","c","t">>, 2)>>,
     chunks |-> <<Span(<<"P","l","a","n","t","s">>, 1), Span(<<"w","a","t","e","r">>, 3)>>,
     ents |-> <<>>] >>

\* "Growth stops when cells grow."
DocGrowth == <<
    [tokens |-> <<Tok(<<"G","r","o","w","t","h">>, <<"n","s","u","b","j">>, 2), Tok(<<"s","t","o","p","s">>, <<"R","O","O","T">>, 2),
                  Tok(<<"w","h","e","n">>, <<"a","d","v","m","o","d">>, 5), Tok(<<"c","e","l","l","s">>, <<"n","s","u","b","j">>, 5),
                  Tok(<<"g","r","o","w">>, <<"a","d","v","c","l">>, 2), Tok(<<".">>, <<"p","u","n","c","t">>, 2)>>,
     chunks |-> <<Span(<<"G","r","o","w","t","h">>, 1), Span(<<"c","e","l","l","s">>, 4)>>,
     ents |-> <<>>] >>

\* "Plants that absorb sunlight thrive."
DocRelative == <<
    [tokens |-> <<Tok(<<"P","l","a","n","t","s">>, <<"n","s","u","b","j">>, 5), Tok(<<"t","h","a","t">>, <<"n","s","u","b","j">>, 3),
                  Tok(<<"a","b","s","o","r","b">>, <<"r","e","l","c","l">>, 1), Tok(<<"s","u","n","l","i","g","h","t">>, <<"d","o","b","j">>, 3),
                  Tok(<<"t","h","r","i","v","e">>, <<"R","O","O","T">>, 5), Tok(<<".">>, <<"p","u","n","c","t">>, 5)>>,
     chunks |-> <<Span(<<"P","l","a","n","t","s">>, 1), Span(<<"s","u","n","l","i","g","h","t">>, 4)>>,
     ents |-> <<>>] >>

\* "Cells send it energy.", parsed by a model with the labels iobj and obj
DocTwoObjects == <<
    [tokens |-> <<Tok(<<"C","e","l","l","s">>, <<"n","s","u","b","j">>, 2), Tok(<<"s","e","n","d">>, <<"R","O","O","T">>, 2),
                  Tok(<<"i","t">>, <<"i","o","b","j">>, 2), Tok(<<"e","n","e","r","g","y">>, <<"o","b","j">>, 2),
                  Tok(<<".">>, <<"p","u","n","c","t">>, 2)>>,
     chunks |-> <<Span(<<"C","e","l","l","s">>, 1), Span(<<"i","t">>, 3), Span(<<"e","n","e","r","g","y">>, 4)>>,
     ents |-> <<>>] >>

\* "Calvin studied the table of enzymes."
DocEntity == <<
    [tokens |-> <<Tok(<<"C","a","l","v","i","n">>, <<"n","s","u","b","j">>, 2), Tok(<<"s","t","u","d","i","e","d">>, <<"R","O","O","T">>, 2),
                  Tok(<<"t","h","e">>, <<"d","e","t">>, 4), Tok(<<"t","a","b","l","e">>, <<"d","o","b","j">>, 2),
                  Tok(<<"o","f">>, <<"p","r","e","p">>, 4), Tok(<<"e","n","z","y","m","e","s">>, <<"p","o","b","j">>, 5),
                  Tok(<<".">>, <<"p","u","n","c","t">>, 2)>>,
     chunks |-> <<Span(<<"C","a","l","v","i","n">>, 1), Span(<<"t","h","e"," ","t","a","b","l","e">>, 4), Span(<<"e","n","z","y","m","e","s">>, 6)>>,
     ents |-> <<Span(<<"C","a","l","v","i","n">>, 1)>>] >>

\* "The long thin green plant stems absorb sunlight."
DocLongChunk == <<
    [tokens |-> <<Tok(<<"T","h","e">>, <<"d","e","t">>, 6), Tok(<<"l","o","n","g">>, <<"a","m","o","d">>, 6),
                  Tok(<<"t","h","i","n">>, <<"a","m","o","d">>, 6), Tok(<<"g","r","e","e","n">>, <<"a","m","o","d">>, 6),
                  Tok(<<"p","l","a","n","t">>, <<"c","o","m","p","o","u","n","d">>, 6), Tok(<<"s","t","e","m","s">>, <<"n","s","u","b","j">>, 7),
                  Tok(<<"a","b","s","o","r","b">>, <<"R","O","O","T">>, 7), Tok(<<"s","u","n","l","i","g","h","t">>, <<"d","o","b","j">>, 7),
                  Tok(<<".">>, <<"p","u","n","c","t">>, 7)>>,
     chunks |-> <<Span(<<"T","h","e"," ","l","o","n","g"," ","t","h","i","n"," ","g","r","e","e","n"," ","p","l","a","n","t"," ","s","t","e","m","s">>, 6), Span(<<"s","u","n","l","i","g","h","t">>, 8)>>,
     ents |-> <<>>] >>

\* "Leaves have the ability to absorb sunlight. Air that gives plants oxygen moves."
DocAbility == <<
    [tokens |-> <<Tok(<<"L","e","a","v","e","s">>, <<"n","s","u","b","j">>, 2), Tok(<<"h","a","v","e">>, <<"R","O","O","T">>, 2),
                  Tok(<<"t","h","e">>, <<"d","e","t">>, 4), Tok(<<"a","b","i","l","i","t","y">>, <<"d","o","b","j">>, 2),
                  Tok(<<"t","o">>, <<"a","u","x">>, 6), Tok(<<"a","b","s","o","r","b">>, <<"a","c","l">>, 4),
                  Tok(<<"s","u","n","l","i","g","h","t">>, <<"d","o","b","j">>, 6), Tok(<<".">>, <<"p","u","n","c","t">>, 2)>>,
     chunks |-> <<Span(<<"L","e","a","v","e","s">>, 1), Span(<<"t","h","e"," ","a","b","i","l","i","t","y">>, 4), Span(<<"s","u","n","l","i","g","h","t">>, 7)>>,
     ents |-> <<>>],
    [tokens |-> <<Tok(<<"A","i","r">>, <<"n","s","u","b","j">>, 6), Tok(<<"t","h","a","t">>, <<"n","s","u","b","j">>, 3),
                  Tok(<<"g","i","v","e","s">>, <<"r","e","l","c","l">>, 1), Tok(<<"p","l","a","n","t","s">>, <<"d","a","t","i","v","e">>, 3),
                  Tok(<<"o","x","y","g","e","n">>, <<"d","o","b","j">>, 3), Tok(<<"m","o","v","e","s">>, <<"R","O","O","T">>, 6),
                  Tok(<<".">>, <<"p","u","n","c","t">>, 6)>>,
     chunks |-> <<Span(<<"A","i","r">>, 1), Span(<<"p","l","a","n","t","s">>, 4), Span(<<"o","x","y","g","e","n">>, 5)>>,
     ents |-> <<>>] >>

\* "Sun that warms oceans outshines sunlight."
DocSun == <<
    [tokens |-> <<Tok(<<"S","u","n">>, <<"n","s","u","b","j">>, 5), Tok(<<"t","h","a","t">>, <<"n","s","u","b","j">>, 3),
                  Tok(<<"w","a","r","m","s">>, <<"r","e","l","c","l">>, 1), Tok(<<"o","c","e","a","n","s">>, <<"d","o","b","j">>, 3),
                  Tok(<<"o","u","t","s","h","i","n","e","s">>, <<"R","O","O","T">>, 5), Tok(<<"s","u","n","l","i","g","h","t">>, <<"d","o","b","j">>, 5),
                  Tok(<<".">>, <<"p","u","n","c","t">>, 5)>>,
     chunks |-> <<Span(<<"S","u","n">>, 1), Span(<<"o","c","e","a","n","s">>, 4), Span(<<"s","u","n","l","i","g","h","t">>, 6)>>,
     ents |-> <<>>] >>

DocUniverse == {DocAbsorb, DocGrowth, DocRelative, DocTwoObjects, DocEntity, DocLongChunk}

\* the texts is_valid_concept is called with
ValidInputs ==
    StringsUpTo({"a", "1", ".", " "}, MaxLen)
        \cup {<<"c","o","m","m","u","n","i","t","y">>, <<"W","h","a","t">>, <<" ","h","o","w"," ">>, <<"D","N","A">>, <<"c","e","l","l">>, <<"C","e","l","l"," ","W","a","l","l">>, <<"3",".","1","4">>,
              <<"a","\t","b">>, <<"F","i","g","u","r","e"," ","2">>, <<"w","h","a","t","e","v","e","r">>, <<"1",".","2",".","3">>, <<"2"," ","c","e","l","l","s">>, <<".",".",".",".",".">>}

\* two calls of is_valid_concept(text) in a row on the same extractor, made once, before,
\* between or after the calls of extract_from_text
IsValidConcept(text) ==
    /\ pc = "extractor" /\ validCalls = <<>>
    /\ validCalls' = <<text, is_valid_concept(text), is_valid_concept(text)>>
    /\ UNCHANGED <<concepts, relationships, file, loaded, json_files, run_log, extract_log,
                   lemma_log, graph, envVars, genVars, hfVars,
                   sanVars, tautVars, tplVars, pc>>

InitExtractor ==
    /\ pc = "extractor"
    /\ concepts = {} /\ relationships = <<>> /\ file = <<>> /\ loaded = <<>>
    /\ ExtIdle
    /\ nltk_available = FALSE /\ hf_available = FALSE
    /\ GenIdle /\ HfIdle /\ SanIdle /\ TautIdle /\ TplIdle

NextExtractor ==
    \/ \E text \in ValidInputs : IsValidConcept(text)
    \/ \E doc \in DocUniverse : ExtractFromText(doc)

SpecExtractor == InitExtractor /\ [][NextExtractor]_vars

\* C14: After any sequence of extract_from_text calls every triple of relationships has
\* a source and a target that pass is_valid_concept and are members of concepts, and a
\* verb that is not in the generic-verb set.
C14_TriplesValid ==
    \A i \in 1..Len(relationships) :
        /\ is_valid_concept(relationships[i][1]) /\ relationships[i][1] \in concepts
        /\ is_valid_concept(relationships[i][3]) /\ relationships[i][3] \in concepts
        /\ relationships[i][2] \notin generic_verbs

\* C14 witness: after a document with a sentence whose verb is generic and a document
\* whose subject is a noun chunk of six words, the extractor holds triples.
C14_Witness ==
    /\ Len(extract_log) = 2
    /\ extract_log[1].doc = DocAbsorb /\ extract_log[2].doc = DocLongChunk
    /\ relationships # <<>>

\* C20: In the subject pass, for a subject token that resolves to a concept of the
\* sentence (its verb not being generic): if the verb has an object-role child that
\* resolves to a concept of the sentence, the triple (concept, verb, object concept) is
\* emitted; the head-proxy triple is emitted only when the verb has no object-role child
\* and the head of the verb resolves to a concept; when neither resolves, no triple is
\* emitted for the subject.
C20_SubjectPassRoutes ==
    \A n \in 1..Len(extract_log) : \A k \in 1..Len(extract_log[n].subjects) :
        LET e == extract_log[n].subjects[k]
            verb == e.sent.tokens[e.token].head
            routes(d, objects) ==
                LET Resolves(c) == Matching(d, e.sent.tokens[c].text, c) # <<>>
                IN  /\ (\E c \in objects : Resolves(c)) =>
                            \E c \in objects :
                                \E item \in Range(Matching(d, e.sent.tokens[c].text, c)) :
                                    <<e.concept, Lower(e.sent.tokens[verb].text), item[1]>>
                                        \in Range(e.triples)
                    /\ (e.route = "proxy" /\ e.triples # <<>>) =>
                            objects = {} /\ Resolves(e.sent.tokens[verb].head)
                    /\ (~(\E c \in objects : Resolves(c))
                            /\ ~Resolves(e.sent.tokens[verb].head)) => e.triples = <<>>
        IN  e.route \in {"object", "proxy"} =>
                routes(sentence_concepts(e.sent),
                       {c \in 1..Len(e.sent.tokens) :
                            /\ c # verb /\ e.sent.tokens[c].head = verb
                            /\ Contains(e.sent.tokens[c].dep, <<"o","b","j">>)})

\* the text is a number: digits and periods only, with at least one digit
OnlyDigitsAndPeriods(t) ==
    /\ \A i \in 1..Len(t) : t[i] \in DigitChars \cup {"."}
    /\ \E i \in 1..Len(t) : t[i] \in DigitChars

\* C11: is_valid_concept answers false exactly when the lower-cased, stripped text contains
\* a stop phrase, is a question word, has fewer than two words and fewer than four
\* characters, or is digits once its periods are removed; a second call answers the same,
\* and a call leaves the extractor's concepts and relationships as they were
C11_IsValidConceptPure ==
    /\ [](validCalls # <<>> =>
            LET t == Strip(Lower(validCalls[1]))
            IN  /\ validCalls[2] = ~(\/ \E phrase \in stop_phrases : Contains(t, phrase)
                                     \/ t \in question_words
                                     \/ Len(Split(t)) < 2 /\ Len(t) < 4
                                     \/ OnlyDigitsAndPeriods(t))
                /\ validCalls[3] = validCalls[2])
    /\ [][validCalls' # validCalls => concepts' = concepts /\ relationships' = relationships]_vars

\* a number of four characters, which the length rule lets through, is refused twice
C11_Witness ==
    /\ validCalls # <<>>
    /\ validCalls[1] = <<"3",".","1","4">>
    /\ ~validCalls[2]

\* the object-pass entries of the log whose object token resolves to a concept of the
\* sentence and whose verb is neither empty nor generic
ObjectEntries ==
    {e \in UNION {Range(extract_log[n].objects) : n \in 1..Len(extract_log)} :
        /\ Matching(sentence_concepts(e.sent), e.sent.tokens[e.token].text, e.token) # <<>>
        /\ Lower(e.sent.tokens[e.sent.tokens[e.token].head].text) \notin generic_verbs \cup {EmptyStr}}

\* the rule that gives the source of the entry's triple: 1 for the head of the verb in a
\* subject role (matched on its lower-cased, trimmed text), 2 for the first resolving child
\* of the verb other than the object, 3 for the head of the verb, 0 when all three fail
SourceRule(e) ==
    LET verb == e.sent.tokens[e.token].head
        head == e.sent.tokens[e.sent.tokens[e.token].head].head
        rule(d) ==
            LET Resolves(c) == Matching(d, e.sent.tokens[c].text, c) # <<>>
            IN  IF /\ Contains(e.sent.tokens[head].dep, <<"s","u","b","j">>)
                   /\ Matching(d, Strip(Lower(e.sent.tokens[head].text)), head) # <<>>
                THEN 1
                ELSE IF \E c \in 1..Len(e.sent.tokens) :
                            c # e.token /\ c # verb /\ e.sent.tokens[c].head = verb /\ Resolves(c)
                THEN 2
                ELSE IF Resolves(head) THEN 3 ELSE 0
    IN  rule(sentence_concepts(e.sent))

\* C21: In the object pass, for an object token that resolves to a concept and whose verb is
\* not generic, the source of the triple is the concept resolved from the head of the verb
\* when that token has a subject role; else the concept resolved from the first child of the
\* verb, other than the object token, that resolves; else the concept resolved from the head
\* of the verb. A later rule is used only when every earlier one yields no concept, exactly
\* one triple (source, verb, object concept) is emitted when one of them yields a concept,
\* and none is emitted when all three fail.
C21_ObjectSourcePriority ==
    \A e \in ObjectEntries :
        LET verb == e.sent.tokens[e.token].head
            head == e.sent.tokens[e.sent.tokens[e.token].head].head
            ordered(d, rule) ==
                LET First(text, c) == Matching(d, text, c)[1][1]
                    siblings == {c \in 1..Len(e.sent.tokens) :
                                    /\ c # e.token /\ c # verb /\ e.sent.tokens[c].head = verb
                                    /\ Matching(d, e.sent.tokens[c].text, c) # <<>>}
                    Emitted(source) ==
                        <<source, Lower(e.sent.tokens[verb].text),
                          First(e.sent.tokens[e.token].text, e.token)>>
                IN  CASE rule = 1 ->
                            e.triples = <<Emitted(First(Strip(Lower(e.sent.tokens[head].text)), head))>>
                      [] rule = 2 ->
                            \E c \in siblings :
                                /\ \A other \in siblings : c <= other
                                /\ e.triples = <<Emitted(First(e.sent.tokens[c].text, c))>>
                      [] rule = 3 ->
                            e.triples = <<Emitted(First(e.sent.tokens[head].text, head))>>
                      [] OTHER -> e.triples = <<>>
        IN  ordered(sentence_concepts(e.sent), SourceRule(e))

\* C21 witness: after two documents the log holds an object whose source came from the
\* subject-role head of its verb, one whose source came from a sibling although the head
\* of the verb has a subject role, one whose source came from the head of the verb (which has no
\* subject role), and one with no triple because all three rules failed.
C21_Witness ==
    /\ Len(extract_log) = 2
    /\ \E e \in ObjectEntries : SourceRule(e) = 1
    /\ \E e \in ObjectEntries :
            /\ SourceRule(e) = 2
            /\ Contains(e.sent.tokens[e.sent.tokens[e.sent.tokens[e.token].head].head].dep, <<"s","u","b","j">>)
    /\ \E e \in ObjectEntries : SourceRule(e) = 0
    /\ \E e \in ObjectEntries : SourceRule(e) = 3 /\ e.triples # <<>>

(***************************************************************************)
(* extract_concepts.py: ConceptExtractor.build_graph and the run of        *)
(* process_curriculum_file                                                 *)
(***************************************************************************)
\* self.graph.add_edge(source, target, relationship=rel) on a DiGraph: both nodes are added,
\* the edge keeps its place when the graph holds it and its attribute is overwritten
add_edge(g, source, target, rel) ==
    [nodes |-> g.nodes \cup {source, target},
     edges |-> DictPut(g.edges, <<source, target>>, rel)]

\* build_graph adding the edges of a multigraph: one edge per triple
build_graph_multi(g, rels, i) ==
    [nodes |-> g.nodes \cup {rels[k][1] : k \in 1..Len(rels)} \cup {rels[k][3] : k \in 1..Len(rels)},
     edges |-> g.edges \o [k \in 1..Len(rels) |-> <<<<rels[k][1], rels[k][3]>>, rels[k][2]>>]]

\* `for source, rel, target in self.relationships` from triple i on
RECURSIVE build_graph(_, _, _)
build_graph(g, rels, i) ==
    IF i > Len(rels) THEN g
    ELSE build_graph(add_edge(g, rels[i][1], rels[i][3], rels[i][2]), rels, i + 1)

\* extractor.build_graph()
BuildGraph ==
    /\ pc \in {"graph", "built"}
    /\ graph' = build_graph(graph, relationships, 1)
    /\ pc' = "built"
    /\ UNCHANGED <<concepts, relationships, file, loaded, validCalls, json_files, run_log,
                   extract_log, lemma_log, envVars, genVars, hfVars, sanVars, tautVars,
                   tplVars>>

\* "Plants reflect sunlight."
DocReflect == <<
    [tokens |-> <<Tok(<<"P","l","a","n","t","s">>, <<"n","s","u","b","j">>, 2), Tok(<<"r","e","f","l","e","c","t">>, <<"R","O","O","T">>, 2),
                  Tok(<<"s","u","n","l","i","g","h","t">>, <<"d","o","b","j">>, 2), Tok(<<".">>, <<"p","u","n","c","t">>, 2)>>,
     chunks |-> <<Span(<<"P","l","a","n","t","s">>, 1), Span(<<"s","u","n","l","i","g","h","t">>, 3)>>,
     ents |-> <<>>] >>

\* "Roots send leaves water.", parsed by a model with the labels iobj and obj
DocRoots == <<
    [tokens |-> <<Tok(<<"R","o","o","t","s">>, <<"n","s","u","b","j">>, 2), Tok(<<"s","e","n","d">>, <<"R","O","O","T">>, 2),
                  Tok(<<"l","e","a","v","e","s">>, <<"i","o","b","j">>, 2), Tok(<<"w","a","t","e","r">>, <<"o","b","j">>, 2),
                  Tok(<<".">>, <<"p","u","n","c","t">>, 2)>>,
     chunks |-> <<Span(<<"R","o","o","t","s">>, 1), Span(<<"l","e","a","v","e","s">>, 3), Span(<<"w","a","t","e","r">>, 4)>>,
     ents |-> <<>>] >>

\* the chunks of text process_curriculum_file hands to extract_from_text, as parsed
ChunkUniverse ==
    {DocAbsorb, DocReflect, DocRelative, DocTwoObjects, DocGrowth, DocAbility, DocSun,
     DocRoots}

\* An extractor as process_curriculum_file creates it; extract_from_text, build_graph and
\* save_concept_map are called on it in any order.
InitGraph ==
    /\ pc = "graph"
    /\ concepts = {} /\ relationships = <<>> /\ file = <<>> /\ loaded = <<>>
    /\ ExtIdle
    /\ nltk_available = FALSE /\ hf_available = FALSE
    /\ GenIdle /\ HfIdle /\ SanIdle /\ TautIdle /\ TplIdle

NextGraph ==
    \/ \E doc \in ChunkUniverse : ExtractFromText(doc)
    \/ BuildGraph
    \/ SaveConceptMap

SpecGraph == InitGraph /\ [][NextGraph]_vars

\* s is a prefix of t
IsPrefix(s, t) == Len(s) <= Len(t) /\ \A i \in 1..Len(s) : s[i] = t[i]

\* C22: The concept and triple collections are append-only: across extract_from_text,
\* build_graph and save_concept_map every concept and every triple present before the
\* operation is present after it, and the triples emitted before keep their places.
C22_AppendOnly ==
    [][concepts \subseteq concepts' /\ IsPrefix(relationships, relationships')]_vars

\* C22 witness: an extractor that held triples when a second chunk was read, whose graph
\* was built and whose map was saved, holds the triples of the first chunk first.
C22_Witness ==
    /\ Len(extract_log) = 2
    /\ extract_log[2].before > 0 /\ Len(relationships) > extract_log[2].before
    /\ pc = "built" /\ file # <<>>
    /\ relationships # SortedRelationships(relationships)

\* C23: After build_graph the graph has exactly one edge for each distinct (source, target)
\* pair of relationships, labelled with the verb of the last triple of the list for that
\* pair; build_graph leaves relationships and concepts as they were, and a second call
\* changes nothing.
C23_GraphKeepsLastVerb ==
    /\ [](pc = "built" =>
            /\ \A i, j \in 1..Len(graph.edges) :
                    graph.edges[i][1] = graph.edges[j][1] => i = j
            /\ {graph.edges[i][1] : i \in 1..Len(graph.edges)}
                    = {<<relationships[k][1], relationships[k][3]>> : k \in 1..Len(relationships)}
            /\ \A i \in 1..Len(graph.edges) : \E k \in 1..Len(relationships) :
                    /\ graph.edges[i] = <<<<relationships[k][1], relationships[k][3]>>,
                                          relationships[k][2]>>
                    /\ \A later \in (k + 1)..Len(relationships) :
                            <<relationships[later][1], relationships[later][3]>>
                                # graph.edges[i][1])
    /\ [][pc' = "built" =>
            /\ relationships' = relationships /\ concepts' = concepts
            /\ pc = "built" => graph' = graph]_vars

\* C23 witness: the graph was built from a list in which the pair (plants, sunlight) occurs
\* with the verb absorb and later with the verb reflect.
C23_Witness ==
    /\ pc = "built"
    /\ \E i, j \in 1..Len(relationships) :
            /\ i < j
            /\ relationships[i] = <<<<"p","l","a","n","t","s">>, <<"a","b","s","o","r","b">>, <<"s","u","n","l","i","g","h","t">>>>
            /\ relationships[j] = <<<<"p","l","a","n","t","s">>, <<"r","e","f","l","e","c","t">>, <<"s","u","n","l","i","g","h","t">>>>
    /\ <<<<<<"p","l","a","n","t","s">>, <<"s","u","n","l","i","g","h","t">>>>, <<"r","e","f","l","e","c","t">>>> \in Range(graph.edges)

\* the tokens of the document with a subject or an object role, as <<sentence, token>>
RoleTokens(doc) ==
    {p \in UNION {{<<n, t>> : t \in 1..Len(doc[n].tokens)} : n \in 1..Len(doc)} :
        \/ Contains(doc[p[1]].tokens[p[2]].dep, <<"s","u","b","j">>)
        \/ Contains(doc[p[1]].tokens[p[2]].dep, <<"o","b","j">>)}

\* C30: Processing one token in extract_from_text appends at most one triple: a
\* subject-role token yields at most one, an object-role token at most one, and a token is
\* handled by only one of the two passes; so a call appends no more triples than the
\* sentences of its document have subject-role and object-role tokens.
C30_OneTriplePerToken ==
    \A n \in 1..Len(extract_log) :
        LET call == extract_log[n]
            after == IF n < Len(extract_log) THEN extract_log[n + 1].before
                     ELSE Len(relationships)
        IN  /\ \A k \in 1..Len(call.subjects) : Len(call.subjects[k].triples) <= 1
            /\ \A k \in 1..Len(call.objects) : Len(call.objects[k].triples) <= 1
            /\ \A k \in 1..Len(call.subjects) : \A m \in 1..Len(call.objects) :
                    ~(/\ call.subjects[k].sent = call.objects[m].sent
                      /\ call.subjects[k].token = call.objects[m].token)
            /\ Len(call.subjects) + Len(call.objects) = Cardinality(RoleTokens(call.doc))
            /\ after - call.before <= Cardinality(RoleTokens(call.doc))

\* C30 witness: a sentence whose verb has two object children that both resolve was read:
\* its subject yielded one triple and each of its objects one, three triples for three
\* tokens with a role.
C30_Witness ==
    /\ Len(extract_log) = 1 /\ extract_log[1].doc = DocRoots
    /\ Len(relationships) = 3
    /\ Len(extract_log[1].subjects) = 1 /\ Len(extract_log[1].subjects[1].triples) = 1
    /\ Len(extract_log[1].objects) = 2

\* C24: select_templates_and_answer puts the lower-cased verb into exactly one of the
\* buckets causal, compositional, definitional, action and general (the four verb lists
\* are pairwise disjoint) and returns exactly six pairs: the three of that bucket, then
\* "What {verb}s {target}?" with answer source, "What does {source} {verb}?" with answer
\* target and "Who or what {verb}s {target}?" with answer source.
C24_SixPairsPerTriple ==
    tplPairs # <<>> =>
        LET source == tplArgs[1]
            verb == tplArgs[2]
            target == tplArgs[3]
            lists == <<causal_verbs, comp_verbs, def_verbs, action_verbs>>
            names == <<"causal", "compositional", "definitional", "action">>
            sized(hits) ==
                /\ Cardinality(hits) <= 1
                /\ tplBucket = IF hits = {} THEN "general" ELSE names[CHOOSE k \in hits : TRUE]
                /\ SubSeq(tplPairs, 1, 3) =
                        CASE tplBucket = "causal" -> causal_templates(source, verb, target)
                          [] tplBucket = "compositional" -> comp_templates(source, verb, target)
                          [] tplBucket = "definitional" -> def_templates(source, verb, target)
                          [] tplBucket = "action" -> action_templates(source, verb, target)
                          [] OTHER -> general_templates(source, verb, target)
        IN  /\ \A i, j \in 1..4 : i # j => lists[i] \cap lists[j] = {}
            /\ sized({k \in 1..4 : Lower(verb) \in lists[k]})
            /\ Len(tplPairs) = 6
            /\ tplPairs[4] = <<<<"W","h","a","t"," ">> \o verb \o <<"s"," ">> \o target \o <<"?">>, source>>
            /\ tplPairs[5] = <<<<"W","h","a","t"," ","d","o","e","s"," ">> \o source \o <<" ">> \o verb \o <<"?">>, target>>
            /\ tplPairs[6] = <<<<"W","h","o"," ","o","r"," ","w","h","a","t"," ">> \o verb \o <<"s"," ">> \o target \o <<"?">>, source>>

\* C24 witness: the pairs of a triple whose verb is in the compositional list once it is
\* lower-cased, with the three questions of that bucket checked
C24_Witness ==
    /\ tplArgs = Triple(<<"a"," ","c","e","l","l">>, <<"C","o","n","t","a","i","n","s">>, <<"a"," ","n","u","c","l","e","u","s">>)
    /\ tplBucket = "compositional"
    /\ Len(tplPairs) = 6
    /\ \A i \in 1..3 : \E c \in tplChecked : c[1] = i

(***************************************************************************)
(* Lemmatizer harness: lemmatize_verb is called on a verb                  *)
(***************************************************************************)
\* the verbs lemmatize_verb is called with: stripped and lower-cased, as line 241 makes them
LemmaInputs ==
    StringsUpTo({"s", "e", "i", "d"}, MaxLen)
        \cup {<<"p","a","s","s","e","s">>, <<"s","t","u","d","i","e","s">>, <<"p","r","o","d","u","c","e","s">>, <<"p","u","m","p","s">>, <<"w","a","l","k","e","d">>, <<"r","u","n","n","i","n","g">>,
              <<"s","i","n","g">>, <<"g","i","v","e","n">>, <<"i","s">>, <<"g","r","o","w">>, <<"u","s","e">>, <<"c","l","a","s","s","e","s">>, <<"i","n","g">>}

\* lemmatize_verb(verb)
LemmatizeVerb(verb) ==
    /\ pc = "lemma" /\ lemma_log = <<>>
    /\ lemma_log' = <<verb, lemmatize_verb(verb, nltk_available)>>
    /\ UNCHANGED <<concepts, relationships, file, loaded, validCalls, json_files, run_log,
                   extract_log, graph, pc, envVars, genVars, hfVars, sanVars, tautVars,
                   tplVars>>

\* the lexical library is not installed
InitLemma ==
    /\ pc = "lemma"
    /\ nltk_available = FALSE /\ hf_available = FALSE
    /\ MapIdle /\ GenIdle /\ HfIdle /\ SanIdle /\ TautIdle /\ TplIdle

NextLemma == \E verb \in LemmaInputs : LemmatizeVerb(verb)

SpecLemma == InitLemma /\ [][NextLemma]_vars

\* C25: With the lexical lemmatizer absent, lemmatize_verb strips exactly one suffix, the
\* longest of sses, ies, es, s, ed, ing that the verb ends with, and returns the rest; a
\* verb that ends with none of them comes back unchanged.
C25_LongestSuffixStripped ==
    (lemma_log # <<>> /\ ~nltk_available) =>
        LET stripped(verb, lemma, ending) ==
                IF ending = {} THEN lemma = verb
                ELSE \E suf \in ending :
                        /\ \A other \in ending : Len(other) <= Len(suf)
                        /\ lemma \o suf = verb
        IN  stripped(lemma_log[1], lemma_log[2],
                     {suf \in {<<"s","s","e","s">>, <<"i","e","s">>, <<"e","s">>, <<"s">>, <<"e","d">>, <<"i","n","g">>} :
                            EndsWith(lemma_log[1], suf)})

\* C25 witness: "passes" ends with sses, es and s, and comes back as "pa"
C25_Witness ==
    /\ ~nltk_available
    /\ lemma_log = <<<<"p","a","s","s","e","s">>, <<"p","a">>>>

\* C26: generate_hf_answers returns a list with exactly one entry per question, entry i
\* being the answer to question i or None, whatever batches succeed or fail, a failure
\* raised while the results of a batch are read included.
C26_OneAnswerPerQuestion ==
    (pc = "done" /\ hf_in # <<>> /\ hf_in.caller = "direct") =>
        /\ Len(answers) = Len(hf_in.questions)
        /\ \A i \in 1..Len(answers) :
                answers[i] \in {PyNone, EmptyStr, hf_in.questions[i]}

(***************************************************************************)
(* The question generator run where the generation capability is absent    *)
(***************************************************************************)
MaxVerbRels == 2    \* longest 'relationships' list of this harness
MaxVerbLimit == 5   \* largest num_questions of this harness

\* relationships whose verbs are forms of "be", verbs of the template lists, base forms
\* of such verbs, and a verb that is a number
VerbRels == {
    DictRel(<<"m","i","t","o","c","h","o","n","d","r","i","a">>, <<"a","r","e">>, <<"o","r","g","a","n","e","l","l","e","s">>),
    DictRel(<<"t","r","e","e"," ","r","o","o","t","s">>, <<"p","r","o","v","i","d","e">>, <<"w","a","t","e","r">>),
    DictRel(<<"t","r","e","e"," ","r","o","o","t","s">>, <<"p","r","o","v","i","d","e","s">>, <<"w","a","t","e","r">>),
    DictRel(<<"s","m","o","k","e">>, <<"l","e","a","d","s"," ","t","o">>, <<"c","o","u","g","h">>),
    ListRel(<<"h","o","t"," ","a","i","r">>, <<"m","o","v","e">>, <<"c","o","l","d"," ","a","i","r"," ","m","a","s","s","e","s">>),
    DictRel(<<"c","e","l","l">>, PyInt(<<"5">>), <<"n","u","c","l","e","u","s">>) }

InitNoHf ==
    /\ pc = "start"
    /\ nltk_available \in BOOLEAN
    /\ hf_available = FALSE
    /\ concept_map \in UNION {[1..k -> VerbRels] : k \in 0..MaxVerbRels}
    /\ num_questions \in {<<>>} \cup {<<n>> : n \in 0..MaxVerbLimit}
    /\ trace = <<>> /\ cands = <<>> /\ questions = <<>>
    /\ HfIdle /\ MapIdle /\ SanIdle /\ TautIdle /\ TplIdle

NextNoHf ==
    \/ GenerateQuestionsEmpty
    \/ \E perm \in Shuffles(Len(concept_map)) : CollectQuestions(perm)
    \/ HfUnavailable
    \/ BuildRecords

SpecNoHf == InitNoHf /\ [][NextNoHf]_vars

\* C27: No relationship processed by generate_questions reaches the definitional
\* templates: is, are, was, were and be are all in the blacklist, so a triple whose
\* lemmatized verb is one of them is dropped before template selection.
C27_DefinitionalUnreachable ==
    /\ {<<"i","s">>, <<"a","r","e">>, <<"w","a","s">>, <<"w","e","r","e">>, <<"b","e">>} \subseteq blacklisted_verbs
    /\ \A k \in 1..Len(trace) :
            /\ trace[k].bucket # "definitional"
            /\ trace[k].verb \in {<<"i","s">>, <<"a","r","e">>, <<"w","a","s">>, <<"w","e","r","e">>, <<"b","e">>} =>
                    trace[k].status # "selected" /\ trace[k].pairs = <<>>
    /\ \A i \in 1..Len(cands) :
            /\ cands[i].verb \notin {<<"i","s">>, <<"a","r","e">>, <<"w","a","s">>, <<"w","e","r","e">>, <<"b","e">>}
            /\ \A pair \in Range(def_templates(cands[i].source, cands[i].verb, cands[i].target)) :
                    cands[i].question # spellcheck_question(pair[1])

\* C27 witness: with the lexical library, a map whose first relationship has the verb
\* "are", lemmatized to "be" and dropped by the blacklist, and whose second relationship
\* gave questions
C27_Witness ==
    /\ pc = "done" /\ nltk_available /\ Len(trace) = 2
    /\ concept_map[1].relationship = <<"a","r","e">>
    /\ trace[1].verb = <<"b","e">> /\ trace[1].status = "blacklisted"
    /\ trace[2].status = "selected" /\ questions # <<>>

\* C28: With the lexical library absent every triple that reaches template selection is
\* classified general: no verb that is in COMMON_ENGLISH_VERBS and not blacklisted is in
\* the causal, compositional, definitional or action list.
C28_FallbackAlwaysGeneral ==
    ~nltk_available =>
        /\ (COMMON_ENGLISH_VERBS \ blacklisted_verbs)
                \cap (causal_verbs \cup comp_verbs \cup def_verbs \cup action_verbs) = {}
        /\ \A k \in 1..Len(trace) :
                trace[k].status = "selected" =>
                    /\ trace[k].bucket = "general"
                    /\ SubSeq(trace[k].pairs, 1, 3) =
                            general_templates(GateOf(concept_map[k], FALSE).source, trace[k].verb,
                                              GateOf(concept_map[k], FALSE).target)

\* C28 witness: without the lexical library the verb "provide", the base form of a verb of
\* the action list, reached template selection, and the verb "leads to" of the causal list
\* did not
C28_Witness ==
    /\ pc = "done" /\ ~nltk_available /\ Len(trace) = 2
    /\ trace[1].verb = <<"p","r","o","v","i","d","e">> /\ trace[1].status = "selected"
    /\ trace[2].verb = <<"l","e","a","d","s"," ","t","o">> /\ trace[2].status = "invalid_verb"
    /\ questions # <<>>

\* C29: Called with a positive limit n, generate_questions returns at most n records, and
\* exactly n when at least n questions survive the filters; called with None or 0 it
\* returns one record for every surviving question.
C29_LimitCapsRecords ==
    pc = "done" =>
        LET capped(surviving) ==
                /\ Len(questions) =
                        IF num_questions = <<>> THEN Len(surviving)
                        ELSE IF num_questions[1] = 0 THEN Len(surviving)
                        ELSE Min(num_questions[1], Len(surviving))
                /\ \A i \in 1..Len(questions) :
                        /\ questions[i].question = surviving[i].question
                        /\ questions[i].origin = surviving[i].origin
        IN  capped(CollectFrom(concept_map, 1, <<>>, <<>>, <<>>, nltk_available).cands)

\* C29 witness: with the limit 5 and a map of two relationships with four surviving
\* questions each, five records are returned, the fifth from the second relationship;
C29_Witness ==
    /\ pc = "done" /\ num_questions = <<5>>
    /\ Len(questions) = 5
    /\ questions[4].origin = 1 /\ questions[5].origin = 2

\* C2: Fallback guarantee: every question record returned by generate_questions has a
\* non-empty answer; when the generation capability returned None or an empty string for
\* that question, or raised, the answer is the templated answer paired with that question.
\* What the capability gave for question i is read from the batch the question was
\* submitted in.
C2_FallbackPerQuestion ==
    pc = "done" =>
        \A i \in 1..Len(questions) :
            /\ questions[i].answer # EmptyStr /\ questions[i].answer # PyNone
            /\ ~hf_available => questions[i].answer = cands[i].template_a
            /\ \A k \in 1..Len(hf_log) :
                    (/\ hf_log[k].start < i /\ i <= hf_log[k].start + hf_log[k].size
                     /\ \/ hf_log[k].raised
                        \/ hf_log[k].kinds[i - hf_log[k].start] \in {"none", "empty", "nokey"})
                        => questions[i].answer = cands[i].template_a

====
